---- MODULE Spec2Model ----
(***************************************************************************)
(* Mesh node status aggregator (enhanced_ogm_monitor.py): the lifecycle    *)
(* with its advisory lock, the poll loop, the single-slot write queue, the *)
(* writer thread and the crash-safe publication of the status file.        *)
(*                                                                         *)
(* Every instance is one OS process.  A running process has two threads:   *)
(* the main thread (run: build_status, write_status, sleep) and the daemon *)
(* writer thread (_writer_loop, _write_status_sync).  The status file, the *)
(* temporary files beside it and the lock are shared by all processes.     *)
(*                                                                         *)
(* The collectors and the merger (get_batman_nodes, get_wifi_stations,     *)
(* read_power_info, build_status) are operators on the text of the command *)
(* outputs and on the power-supply directories; CallSpec applies them to   *)
(* bounded inputs.  RefSpec follows a snapshot as an object with           *)
(* references from build_status through the queue to json.dump.            *)
(***************************************************************************)
EXTENDS Integers, Sequences, FiniteSets, TLC

\* ------------------------------------------------------------- bounds
\* Number of processes that may be started against the same lock path.
NumInst == 2
\* Number of poll cycles started, all processes together; after that every
\* main thread stays in front of its next cycle.
MaxCycle == 2

\* ---------------------------------------------------- program constants
\* Queue(maxsize=1)
QueueMaxsize == 1
\* WIFI_IFACES = ["wlan1", "mesh0", "wlan0"]
WIFI_IFACES == <<"wlan1", "mesh0", "wlan0">>

Inst == 1..NumInst
NoInst == 0
\* A snapshot value: the process that built it, the poll cycle it was built
\* in and its nodes part ("empty", "routes", "routes+metrics").
NoSnap == [by |-> 0, seq |-> 0, nodes |-> "none"]
NoFile == [snap |-> NoSnap, st |-> "missing"]
NoTmp == <<0, 0>>
NoInput == [fn |-> "none"]
NoOutput == [fn |-> "none"]

VARIABLES
    lock,       \* holder of the flock on /tmp/ogm_monitor.lock, NoInst if free
    phase,      \* per process: "new", "locked", "running", "exiting", "stopped"
    exit,       \* per process: why it stopped ("none" while it has not)
    pc,         \* main thread: position in run / build_status / write_status
    hung,       \* main thread: blocked in a command that never returns
    ncycles,    \* number of poll cycles started so far, all processes together
    cycle,      \* main thread: the number of its current poll cycle
    nodes,      \* main thread: result of get_batman_nodes in this cycle
    stats,      \* main thread: result of get_wifi_stations in this cycle
    pinfo,      \* main thread: result of read_power_info in this cycle
    payload,    \* main thread: the snapshot built in this cycle
    errs,       \* main thread: the collectors that failed in the cycle whose
                \* snapshot is being built or handed to write_status
    queue,      \* per process: _write_queue
    wpc,        \* writer thread: position in _writer_loop / _write_status_sync
    wpayload,   \* writer thread: payload taken from the queue
    wtmp,       \* writer thread: tmppath of the current write
    werr,       \* writer thread: the step whose exception reached the finally
    tmpfiles,   \* temporary files in the status directory
    dest,       \* the status file STATUS_FILE
    fs,         \* the filesystem holding the status directory: "rw" or "ro"
    input,      \* the text, files and clock a collector or the merger is
                \* applied to (the specifications of the pure functions)
    output,     \* what it returned, NoOutput before the call
    heap,       \* the nodes dicts of one process by address: their content
    hpc,        \* main thread: position in run / build_status / write_status
    hcycle,     \* main thread: the number of its current poll cycle
    hnodes,     \* main thread: the address its variable `nodes` refers to
    hpayload,   \* main thread: the dict build_status returned
    hqueue,     \* _write_queue: the items put, each with its content then
    hwpc,       \* writer thread: position in _writer_loop
    hwitem,     \* writer thread: the item taken from the queue
    hdumped     \* what json.dump has serialized so far

vars == <<lock, phase, exit, ncycles, pc, hung, cycle, nodes, stats, pinfo,
          payload, errs, queue, wpc, wpayload, wtmp, werr, tmpfiles, dest, fs,
          input, output,
          heap, hpc, hcycle, hnodes, hpayload, hqueue, hwpc, hwitem, hdumped>>

\* The variables of the processes, and those of the pure functions.
progVars == <<lock, phase, exit, ncycles, pc, hung, cycle, nodes, stats, pinfo,
              payload, errs, queue, wpc, wpayload, wtmp, werr, tmpfiles, dest, fs>>
callVars == <<input, output>>

\* The variables of the object references: a snapshot is a dict that refers
\* to its nodes dict, and the queue and the writer hold references to it.
refVars == <<heap, hpc, hcycle, hnodes, hpayload, hqueue, hwpc, hwitem, hdumped>>

mainVars == <<pc, hung, cycle, nodes, stats, pinfo, payload, errs>>
writerVars == <<wpc, wpayload, wtmp, werr>>
fileVars == <<tmpfiles, dest>>
procVars == <<lock, phase, exit, ncycles>>

\* ------------------------------------------------------------- helpers
\* Exit status of a stopped process: sys.exit(0) on lock contention, a normal
\* return of run() after KeyboardInterrupt; a signal death or an uncaught
\* exception is a non-zero status.
ExitCode(cause) ==
    IF cause \in {"lock_busy", "sigint"} THEN 0 ELSE 1

\* A process that has a writer thread or executes poll cycles.
Running(i) == phase[i] \in {"running", "exiting"}

\* Names of the temporary files that exist.
TmpNames == {t.name : t \in tmpfiles}

\* tempfile.mkstemp: a name in the directory that does not exist yet.
mkstemp_name(i) ==
    <<i, CHOOSE k \in 1..(Cardinality(tmpfiles) + 1) : <<i, k>> \notin TmpNames>>

\* No process has been started.
InitProcesses ==
    /\ lock = NoInst
    /\ phase = [i \in Inst |-> "new"]
    /\ exit = [i \in Inst |-> "none"]
    /\ ncycles = 0
    /\ pc = [i \in Inst |-> "none"]
    /\ hung = [i \in Inst |-> FALSE]
    /\ cycle = [i \in Inst |-> 0]
    /\ nodes = [i \in Inst |-> "none"]
    /\ stats = [i \in Inst |-> "none"]
    /\ pinfo = [i \in Inst |-> "none"]
    /\ payload = [i \in Inst |-> NoSnap]
    /\ errs = [i \in Inst |-> {}]
    /\ queue = [i \in Inst |-> <<>>]
    /\ wpc = [i \in Inst |-> "none"]
    /\ wpayload = [i \in Inst |-> NoSnap]
    /\ wtmp = [i \in Inst |-> NoTmp]
    /\ werr = [i \in Inst |-> "none"]
    /\ tmpfiles = {}
    /\ dest = NoFile
    /\ fs = "rw"

\* The addresses of the nodes dicts: get_batman_nodes makes one per call.
Addrs == 1..MaxCycle

\* No dict (None), the content of an address not in use, no snapshot and no
\* queue item.
NoAddr == 0
NoDict == [seq |-> 0, merged |-> FALSE]
NoStatus == [timestamp |-> 0, nodes |-> NoAddr]
NoItem == [payload |-> NoStatus, submitted |-> [timestamp |-> 0, nodes |-> NoDict]]

InitRefs ==
    /\ heap = [a \in Addrs |-> NoDict]
    /\ hpc = "batctl"
    /\ hcycle = 0
    /\ hnodes = NoAddr
    /\ hpayload = NoStatus
    /\ hqueue = <<>>
    /\ hwpc = "get"
    /\ hwitem = NoItem
    /\ hdumped = {}

Init ==
    /\ InitProcesses
    /\ input = NoInput
    /\ output = NoOutput
    /\ InitRefs

\* ------------------------------------------------------- lifecycle
\* A variant of init_flock that reports the held lock and goes on instead
\* of leaving with sys.exit(0).
init_flock_no_exit(i) ==
    /\ phase[i] = "new"
    /\ \A j \in Inst : j < i => phase[j] # "new"
    /\ lock' = IF lock = NoInst THEN i ELSE lock
    /\ phase' = [phase EXCEPT ![i] = "locked"]
    /\ exit' = exit
    /\ UNCHANGED <<ncycles, mainVars, queue, writerVars, fileVars, fs>>
    /\ UNCHANGED <<callVars, refVars>>

\* A variant of init_flock that does not keep the lock file object: the
\* descriptor is closed and the lock released as soon as __init__ goes on.
init_flock_lock_dropped(i) ==
    /\ phase[i] = "new"
    /\ \A j \in Inst : j < i => phase[j] # "new"
    /\ IF lock = NoInst
       THEN /\ lock' = NoInst
            /\ phase' = [phase EXCEPT ![i] = "locked"]
            /\ exit' = exit
       ELSE /\ lock' = lock
            /\ phase' = [phase EXCEPT ![i] = "stopped"]
            /\ exit' = [exit EXCEPT ![i] = "lock_busy"]
    /\ UNCHANGED <<ncycles, mainVars, queue, writerVars, fileVars, fs>>
    /\ UNCHANGED <<callVars, refVars>>

\* A variant of init_flock that takes a shared lock (LOCK_SH): every process
\* gets it and goes on.
init_flock_shared(i) ==
    /\ phase[i] = "new"
    /\ \A j \in Inst : j < i => phase[j] # "new"
    /\ lock' = i
    /\ phase' = [phase EXCEPT ![i] = "locked"]
    /\ exit' = exit
    /\ UNCHANGED <<ncycles, mainVars, queue, writerVars, fileVars, fs>>
    /\ UNCHANGED <<callVars, refVars>>

\* __init__: open the lock file and flock(LOCK_EX | LOCK_NB).  On
\* BlockingIOError the process prints, closes the file and sys.exit(0).
\* The processes are numbered in the order of their flock calls.
init_flock(i) ==
    /\ phase[i] = "new"
    /\ \A j \in Inst : j < i => phase[j] # "new"
    /\ IF lock = NoInst
       THEN /\ lock' = i
            /\ phase' = [phase EXCEPT ![i] = "locked"]
            /\ exit' = exit
       ELSE /\ lock' = lock
            /\ phase' = [phase EXCEPT ![i] = "stopped"]
            /\ exit' = [exit EXCEPT ![i] = "lock_busy"]
    /\ UNCHANGED <<ncycles, mainVars, queue, writerVars, fileVars, fs>>
    /\ UNCHANGED <<callVars, refVars>>

\* __init__ after the lock: local_mac, the queue, the writer thread started;
\* then run() enters its loop.
init_start_writer(i) ==
    /\ phase[i] = "locked"
    /\ phase' = [phase EXCEPT ![i] = "running"]
    /\ queue' = [queue EXCEPT ![i] = <<>>]
    /\ wpc' = [wpc EXCEPT ![i] = "get"]
    /\ pc' = [pc EXCEPT ![i] = "batctl"]
    /\ UNCHANGED <<lock, exit, ncycles, hung, cycle, nodes, stats, pinfo, payload,
                   errs, wpayload, wtmp, werr, fileVars, fs>>
    /\ UNCHANGED <<callVars, refVars>>

\* A temporary file nothing will open again (its writer died, or failed to
\* unlink it): the file stays, the model keeps its name only.
orphan(files, name) ==
    {IF t.name = name THEN [name |-> name, snap |-> NoSnap, st |-> "orphan"] ELSE t
       : t \in files}

\* What remains of a process once it has stopped: its memory and threads are
\* gone, the lock it held is released by the OS, its files stay.
stop_process(i, cause) ==
    /\ tmpfiles' = orphan(tmpfiles, wtmp[i])
    /\ UNCHANGED <<ncycles, dest, fs>>
    /\ phase' = [phase EXCEPT ![i] = "stopped"]
    /\ exit' = [exit EXCEPT ![i] = cause]
    /\ lock' = IF lock = i THEN NoInst ELSE lock
    /\ pc' = [pc EXCEPT ![i] = "none"]
    /\ hung' = [hung EXCEPT ![i] = FALSE]
    /\ cycle' = [cycle EXCEPT ![i] = 0]
    /\ nodes' = [nodes EXCEPT ![i] = "none"]
    /\ stats' = [stats EXCEPT ![i] = "none"]
    /\ pinfo' = [pinfo EXCEPT ![i] = "none"]
    /\ payload' = [payload EXCEPT ![i] = NoSnap]
    /\ errs' = [errs EXCEPT ![i] = {}]
    /\ queue' = [queue EXCEPT ![i] = <<>>]
    /\ wpc' = [wpc EXCEPT ![i] = "none"]
    /\ wpayload' = [wpayload EXCEPT ![i] = NoSnap]
    /\ wtmp' = [wtmp EXCEPT ![i] = NoTmp]
    /\ werr' = [werr EXCEPT ![i] = "none"]

\* ------------------------------------------------------- collectors
\* _run: subprocess.check_output(cmd, ...) is called without a timeout.  It
\* returns the output ("ok": text the parser finds entries in, "nomatch":
\* text it finds none in), raises FileNotFoundError (missing binary) or
\* CalledProcessError (non-zero exit), or never returns (hung utility).
CmdOutcomes == {"ok", "nomatch", "missing", "nonzero", "hang"}

\* The exception _run raises for an outcome, "none" when it returns.
run_raises(out) ==
    CASE out = "missing" -> "FileNotFoundError"
      [] out = "nonzero" -> "CalledProcessError"
      [] OTHER -> "none"

\* A variant of the collectors' handler that names the exception of a
\* failed command only: `except subprocess.CalledProcessError`.
except_CalledProcessError(exc) ==
    exc = "CalledProcessError"

\* `except Exception` around _run in both collectors: FileNotFoundError and
\* CalledProcessError are subclasses of Exception.
except_Exception(exc) ==
    exc \in {"FileNotFoundError", "CalledProcessError", "OSError", "ValueError"}

\* `except (FileNotFoundError, OSError, ValueError)` around the reads of
\* read_power_info.
except_OSError(exc) ==
    exc \in {"FileNotFoundError", "OSError", "ValueError"}

\* An exception no handler of the collectors caught reaches run(), which
\* catches KeyboardInterrupt only: the process dies with a traceback.
uncaught(i) ==
    stop_process(i, "crash")

\* get_batman_nodes, the first call of build_status: `batctl o`; an
\* exception gives the empty map and is logged, output without accepted
\* marker lines gives the empty map too.
get_batman_nodes(i) ==
    /\ phase[i] = "running" /\ pc[i] = "batctl" /\ ~hung[i]
    /\ ncycles < MaxCycle
    /\ \E out \in CmdOutcomes :
         IF out = "hang"
         THEN /\ hung' = [hung EXCEPT ![i] = TRUE]
              /\ ncycles' = ncycles + 1
              /\ cycle' = [cycle EXCEPT ![i] = ncycles + 1]
              /\ errs' = [errs EXCEPT ![i] = {}]
              /\ UNCHANGED <<lock, phase, exit, pc, nodes, stats, pinfo, payload,
                             queue, writerVars, fileVars, fs>>
         ELSE IF run_raises(out) # "none" /\ ~except_Exception(run_raises(out))
         THEN uncaught(i)
         ELSE /\ nodes' = [nodes EXCEPT ![i] = IF out = "ok" THEN "routes" ELSE "empty"]
              /\ errs' = [errs EXCEPT ![i] =
                            IF run_raises(out) # "none" THEN {"batctl"} ELSE {}]
              /\ ncycles' = ncycles + 1
              /\ cycle' = [cycle EXCEPT ![i] = ncycles + 1]
              /\ pc' = [pc EXCEPT ![i] = "iw"]
              /\ stats' = [stats EXCEPT ![i] = "empty"]
              /\ UNCHANGED <<lock, phase, exit, hung, pinfo, payload, queue, writerVars,
                             fileVars, fs>>
    /\ UNCHANGED <<callVars, refVars>>

\* The interfaces get_wifi_stations queries for the outcomes outs (one per
\* interface, in the order of WIFI_IFACES): it goes on to the next interface
\* until a dump yields a station ("ok": `if stations: break`) or a command
\* never returns.
wifi_last(outs) ==
    IF \E k \in 1..Len(outs) : outs[k] \in {"ok", "hang"}
    THEN CHOOSE k \in 1..Len(outs) :
             /\ outs[k] \in {"ok", "hang"}
             /\ \A j \in 1..(k - 1) : outs[j] \notin {"ok", "hang"}
    ELSE Len(outs)

\* get_wifi_stations for the outcomes outs: `for iface in self.WIFI_IFACES`.
\* An exception of one interface is logged and the next interface is tried;
\* the stations are those of the first interface whose dump yields any, else
\* the empty map.  The result tells whether a command never returned
\* (hang), whether an exception escaped the handler (escaped), the map
\* returned (stats) and whether every interface tried raised (failed).
wifi_stations(outs) ==
    LET last == wifi_last(outs)
        tried == 1..last
    IN  [hang |-> outs[last] = "hang",
         escaped |-> \E k \in tried : /\ run_raises(outs[k]) # "none"
                                      /\ ~except_Exception(run_raises(outs[k])),
         stats |-> IF outs[last] = "ok" THEN "stations" ELSE "empty",
         failed |-> \A k \in tried : run_raises(outs[k]) # "none"]

get_wifi_stations(i) ==
    /\ phase[i] = "running" /\ pc[i] = "iw" /\ ~hung[i]
    /\ \E r \in {wifi_stations(outs) : outs \in [1..Len(WIFI_IFACES) -> CmdOutcomes]} :
         IF r.escaped
         THEN uncaught(i)
         ELSE IF r.hang
         THEN /\ hung' = [hung EXCEPT ![i] = TRUE]
              /\ UNCHANGED <<procVars, pc, cycle, nodes, stats, pinfo, payload,
                             errs, queue, writerVars, fileVars, fs>>
         ELSE /\ stats' = [stats EXCEPT ![i] = r.stats]
              /\ errs' = [errs EXCEPT ![i] = IF r.failed THEN @ \cup {"iw"} ELSE @]
              /\ pc' = [pc EXCEPT ![i] = "build"]
              /\ UNCHANGED <<procVars, hung, cycle, nodes, pinfo, payload, queue,
                             writerVars, fileVars, fs>>
    /\ UNCHANGED <<callVars, refVars>>

\* The merge loop of build_status: link metrics are copied into the route
\* entries (the route entries of the model are peers of the stations); an
\* empty route table leaves nothing to copy into.
merge(n, s) ==
    IF n = "routes" /\ s = "stations" THEN "routes+metrics" ELSE n

\* read_power_info: an attribute that cannot be read raises OSError, which
\* is caught per attribute, and the defaults remain ("unknown").
read_power_info(readable) ==
    IF readable THEN "known"
    ELSE IF except_OSError("OSError") THEN "unknown"
    ELSE "raise"

\* build_status after the collectors: the merge, build_local_obj and the
\* returned dict, which run() binds to payload before it calls write_status.
\* errs gets "power" when the power attributes could not be read.
build_status(i) ==
    /\ phase[i] = "running" /\ pc[i] = "build"
    /\ \E readable \in BOOLEAN :
         IF read_power_info(readable) = "raise"
         THEN uncaught(i)
         ELSE /\ payload' = [payload EXCEPT ![i] =
                     [by |-> i, seq |-> cycle[i],
                      nodes |-> merge(nodes[i], stats[i])]]
              /\ pinfo' = [pinfo EXCEPT ![i] = read_power_info(readable)]
              /\ errs' = [errs EXCEPT ![i] =
                            IF readable THEN @ ELSE @ \cup {"power"}]
              /\ nodes' = [nodes EXCEPT ![i] = "none"]
              /\ stats' = [stats EXCEPT ![i] = "none"]
              /\ pc' = [pc EXCEPT ![i] = "ws_get"]
              /\ UNCHANGED <<procVars, hung, cycle, queue, writerVars,
                             fileVars, fs>>
    /\ UNCHANGED <<callVars, refVars>>

\* ------------------------------------------------------- publisher
\* A variant of the drain that looks at the pending item without removing
\* it.
get_nowait_peek(q) == q

\* Queue.get_nowait inside `try ... except: pass`: the pending item, if
\* any, is removed; queue.Empty is swallowed.
get_nowait(q) == IF q = <<>> THEN q ELSE Tail(q)

\* A variant of write_status with the put inside the try: when the queue is
\* empty, queue.Empty skips the put and write_status returns.
write_status_put_in_try(i) ==
    /\ phase[i] = "running" /\ pc[i] = "ws_get"
    /\ queue' = [queue EXCEPT ![i] = get_nowait(@)]
    /\ pc' = [pc EXCEPT ![i] = IF queue[i] = <<>> THEN "ws_ret" ELSE "ws_put"]
    /\ pinfo' = [pinfo EXCEPT ![i] = "none"]
    /\ errs' = [errs EXCEPT ![i] = {}]
    /\ UNCHANGED <<procVars, hung, cycle, nodes, stats, payload,
                   writerVars, fileVars, fs>>
    /\ UNCHANGED <<callVars, refVars>>

\* write_status, first statement.  (pinfo and errs describe the build that
\* has just ended and are dropped here.)
write_status_get_nowait(i) ==
    /\ phase[i] = "running" /\ pc[i] = "ws_get"
    /\ queue' = [queue EXCEPT ![i] = get_nowait(@)]
    /\ pc' = [pc EXCEPT ![i] = "ws_put"]
    /\ pinfo' = [pinfo EXCEPT ![i] = "none"]
    /\ errs' = [errs EXCEPT ![i] = {}]
    /\ UNCHANGED <<procVars, hung, cycle, nodes, stats, payload,
                   writerVars, fileVars, fs>>
    /\ UNCHANGED <<callVars, refVars>>

\* write_status, second statement: Queue.put blocks while the queue is
\* full, then appends the item, notifies a waiting getter and releases the
\* queue's mutex.
write_status_put(i) ==
    /\ phase[i] = "running" /\ pc[i] = "ws_put"
    /\ Len(queue[i]) < QueueMaxsize
    /\ queue' = [queue EXCEPT ![i] = Append(@, payload[i])]
    /\ pc' = [pc EXCEPT ![i] = "ws_ret"]
    /\ UNCHANGED <<procVars, hung, cycle, nodes, stats, pinfo, payload, errs,
                   writerVars, fileVars, fs>>
    /\ UNCHANGED <<callVars, refVars>>

\* write_status returns to run(), which calls time.sleep.  The writer thread
\* may have run since the put released the mutex.
write_status_return(i) ==
    /\ phase[i] = "running" /\ pc[i] = "ws_ret"
    /\ pc' = [pc EXCEPT ![i] = "sleep"]
    /\ UNCHANGED <<procVars, hung, cycle, nodes, stats, pinfo, payload, errs,
                   queue, writerVars, fileVars, fs>>
    /\ UNCHANGED <<callVars, refVars>>

\* run(): time.sleep(POLL_INTERVAL_SEC) returns and the next cycle starts.
sleep(i) ==
    /\ phase[i] = "running" /\ pc[i] = "sleep"
    /\ pc' = [pc EXCEPT ![i] = "batctl"]
    /\ UNCHANGED <<procVars, hung, cycle, nodes, stats, pinfo, payload, errs,
                   queue, writerVars, fileVars, fs>>
    /\ UNCHANGED <<callVars, refVars>>

\* ------------------------------------------------------- writer thread
\* Modifying operations fail with EROFS on a read-only filesystem; on a
\* writable one an operation may still fail (EIO, ENOSPC, EMFILE).
io_outcomes == IF fs = "ro" THEN {FALSE} ELSE BOOLEAN

\* A variant of _writer_loop that takes the item and loops without calling
\* _write_status_sync.
writer_loop_get_dropped(i) ==
    /\ Running(i) /\ wpc[i] = "get"
    /\ queue[i] # <<>>
    /\ wpayload' = [wpayload EXCEPT ![i] = Head(queue[i])]
    /\ queue' = [queue EXCEPT ![i] = Tail(@)]
    /\ UNCHANGED <<procVars, mainVars, wpc, wtmp, werr, fileVars, fs>>
    /\ UNCHANGED <<callVars, refVars>>

\* _writer_loop: payload = self._write_queue.get(timeout=1).  On queue.Empty
\* the bare except passes and the loop tries again (no change of state).
writer_loop_get(i) ==
    /\ Running(i) /\ wpc[i] = "get"
    /\ queue[i] # <<>>
    /\ wpayload' = [wpayload EXCEPT ![i] = Head(queue[i])]
    /\ queue' = [queue EXCEPT ![i] = Tail(@)]
    /\ wpc' = [wpc EXCEPT ![i] = "mkstemp"]
    /\ UNCHANGED <<procVars, mainVars, wtmp, werr, fileVars, fs>>
    /\ UNCHANGED <<callVars, refVars>>

\* A variant of _write_status_sync that opens STATUS_FILE itself for
\* writing instead of a temporary file: the open truncates the destination.
write_status_sync_open_in_place(i, ok) ==
    /\ Running(i) /\ wpc[i] = "mkstemp"
    /\ IF ok
       THEN /\ dest' = [snap |-> NoSnap, st |-> "empty"]
            /\ wpc' = [wpc EXCEPT ![i] = "dump"]
       ELSE /\ wpc' = [wpc EXCEPT ![i] = "get"]
            /\ dest' = dest
    /\ UNCHANGED <<procVars, mainVars, queue, wpayload, wtmp, werr, tmpfiles, fs>>
    /\ UNCHANGED <<callVars, refVars>>

\* _write_status_sync: os.makedirs and tempfile.mkstemp in the directory of
\* STATUS_FILE.  A failure is logged by the outer except and the call
\* returns: no temporary file was created.
write_status_sync_mkstemp(i, ok) ==
    /\ Running(i) /\ wpc[i] = "mkstemp"
    /\ IF ok
       THEN /\ tmpfiles' = tmpfiles \cup
                  {[name |-> mkstemp_name(i), snap |-> NoSnap, st |-> "empty"]}
            /\ wtmp' = [wtmp EXCEPT ![i] = mkstemp_name(i)]
            /\ wpc' = [wpc EXCEPT ![i] = "dump"]
       ELSE /\ wpc' = [wpc EXCEPT ![i] = "get"]
            /\ UNCHANGED <<tmpfiles, wtmp>>
    /\ UNCHANGED <<procVars, mainVars, queue, wpayload, werr, dest, fs>>
    /\ UNCHANGED <<callVars, refVars>>

\* The content of the file `name` becomes `snap` in state `st`.
write_file(files, name, snap, st) ==
    {IF t.name = name THEN [name |-> name, snap |-> snap, st |-> st] ELSE t
       : t \in files}

\* A variant in which the exception of a failed json.dump is not caught by
\* _write_status_sync and _writer_loop: it ends the writer thread.
write_status_sync_dump_uncaught(i, ok) ==
    /\ Running(i) /\ wpc[i] = "dump"
    /\ tmpfiles' = write_file(tmpfiles, wtmp[i], wpayload[i],
                              IF ok THEN "complete" ELSE "partial")
    /\ wpc' = [wpc EXCEPT ![i] = IF ok THEN "fsync" ELSE "none"]
    /\ werr' = [werr EXCEPT ![i] = IF ok THEN "none" ELSE "dump"]
    /\ UNCHANGED <<procVars, mainVars, queue, wpayload, wtmp, dest, fs>>
    /\ UNCHANGED <<callVars, refVars>>

\* json.dump(payload, f, indent=2) into the temporary file.  A failure
\* leaves a partial file and raises into the finally.
write_status_sync_dump(i, ok) ==
    /\ Running(i) /\ wpc[i] = "dump"
    /\ tmpfiles' = write_file(tmpfiles, wtmp[i], wpayload[i],
                              IF ok THEN "complete" ELSE "partial")
    /\ wpc' = [wpc EXCEPT ![i] = IF ok THEN "fsync" ELSE "cleanup"]
    /\ werr' = [werr EXCEPT ![i] = IF ok THEN "none" ELSE "dump"]
    /\ UNCHANGED <<procVars, mainVars, queue, wpayload, wtmp, dest, fs>>
    /\ UNCHANGED <<callVars, refVars>>

\* f.flush(), os.fsync(f.fileno()) and the close of the with block.
write_status_sync_fsync(i, ok) ==
    /\ Running(i) /\ wpc[i] = "fsync"
    /\ wpc' = [wpc EXCEPT ![i] = IF ok THEN "replace" ELSE "cleanup"]
    /\ werr' = [werr EXCEPT ![i] = IF ok THEN "none" ELSE "fsync"]
    /\ UNCHANGED <<procVars, mainVars, queue, wpayload, wtmp, fileVars, fs>>
    /\ UNCHANGED <<callVars, refVars>>

\* The file named `name`.
file_of(files, name) == CHOOSE t \in files : t.name = name

\* os.replace(tmppath, self.STATUS_FILE): in one step the destination gets
\* the content of the temporary file, whose name disappears.
write_status_sync_replace(i, ok) ==
    /\ Running(i) /\ wpc[i] = "replace"
    /\ IF ok
       THEN /\ dest' = [snap |-> file_of(tmpfiles, wtmp[i]).snap,
                        st |-> file_of(tmpfiles, wtmp[i]).st]
            /\ tmpfiles' = tmpfiles \ {file_of(tmpfiles, wtmp[i])}
       ELSE UNCHANGED <<dest, tmpfiles>>
    /\ wpc' = [wpc EXCEPT ![i] = "cleanup"]
    /\ werr' = [werr EXCEPT ![i] = IF ok THEN "none" ELSE "replace"]
    /\ UNCHANGED <<procVars, mainVars, queue, wpayload, wtmp, fs>>
    /\ UNCHANGED <<callVars, refVars>>

\* A variant of the finally block that leaves the temporary file.
unlink_skipped(files, name) == files

\* The finally block: if os.path.exists(tmppath): os.unlink(tmppath), in a
\* try whose bare except passes.  The unlink fails on a read-only
\* filesystem.  Then the call returns to _writer_loop (after the "wrote"
\* line, or after the outer except has logged the error).
unlink(files, name) ==
    IF fs = "ro" THEN orphan(files, name) ELSE {t \in files : t.name # name}

\* A variant of the end of _write_status_sync that starts the write of the
\* same payload again after a failure.
write_status_sync_cleanup_retry(i) ==
    /\ Running(i) /\ wpc[i] = "cleanup"
    /\ tmpfiles' = unlink(tmpfiles, wtmp[i])
    /\ wtmp' = [wtmp EXCEPT ![i] = NoTmp]
    /\ werr' = [werr EXCEPT ![i] = "none"]
    /\ wpc' = [wpc EXCEPT ![i] = IF werr[i] = "none" THEN "get" ELSE "mkstemp"]
    /\ UNCHANGED <<procVars, mainVars, queue, wpayload, dest, fs>>
    /\ UNCHANGED <<callVars, refVars>>

\* A variant of _write_status_sync whose unlink is not in a finally block:
\* it is reached only when no step of the write has failed.
write_status_sync_cleanup_no_finally(i) ==
    /\ Running(i) /\ wpc[i] = "cleanup"
    /\ tmpfiles' = IF werr[i] = "none" THEN unlink(tmpfiles, wtmp[i]) ELSE tmpfiles
    /\ wtmp' = [wtmp EXCEPT ![i] = NoTmp]
    /\ werr' = [werr EXCEPT ![i] = "none"]
    /\ wpc' = [wpc EXCEPT ![i] = "get"]
    /\ UNCHANGED <<procVars, mainVars, queue, wpayload, dest, fs>>
    /\ UNCHANGED <<callVars, refVars>>

write_status_sync_cleanup(i) ==
    /\ Running(i) /\ wpc[i] = "cleanup"
    /\ tmpfiles' = unlink(tmpfiles, wtmp[i])
    /\ wtmp' = [wtmp EXCEPT ![i] = NoTmp]
    /\ werr' = [werr EXCEPT ![i] = "none"]
    /\ wpc' = [wpc EXCEPT ![i] = "get"]
    /\ UNCHANGED <<procVars, mainVars, queue, wpayload, dest, fs>>
    /\ UNCHANGED <<callVars, refVars>>

\* ------------------------------------------------------- environment
\* SIGINT: KeyboardInterrupt is raised in the main thread, which waits in a
\* command or in time.sleep (or runs build_status); run() catches it, prints
\* and returns.  The daemon writer thread lives on until the process exits.
sigint(i) ==
    /\ phase[i] = "running"
    /\ pc[i] \in {"batctl", "iw", "build", "sleep"}
    /\ phase' = [phase EXCEPT ![i] = "exiting"]
    /\ pc' = [pc EXCEPT ![i] = "none"]
    /\ hung' = [hung EXCEPT ![i] = FALSE]
    /\ UNCHANGED <<lock, exit, ncycles, cycle, nodes, stats, pinfo, payload,
                   errs, queue, writerVars, fileVars, fs>>
    /\ UNCHANGED <<callVars, refVars>>

\* The interpreter exits after run() has returned: daemon threads are not
\* joined, the process ends with status 0 wherever the writer thread is.
process_exit(i) ==
    /\ phase[i] = "exiting"
    /\ stop_process(i, "sigint")
    /\ UNCHANGED <<callVars, refVars>>

\* SIGTERM (no handler is installed: the default action ends the process)
\* or SIGKILL, at any point after the process has the lock.
terminate(i) ==
    /\ phase[i] \in {"locked", "running", "exiting"}
    /\ stop_process(i, "killed")
    /\ UNCHANGED <<callVars, refVars>>

\* The filesystem of the status directory is remounted read-only (the
\* kernel's reaction to an I/O error of the medium) or writable again.
remount(mode) ==
    /\ fs # mode
    /\ fs' = mode
    /\ UNCHANGED <<procVars, mainVars, queue, writerVars, fileVars>>
    /\ UNCHANGED <<callVars, refVars>>

Next ==
    \/ \E i \in Inst : init_flock(i)
    \/ \E i \in Inst : init_start_writer(i)
    \/ \E i \in Inst : get_batman_nodes(i)
    \/ \E i \in Inst : get_wifi_stations(i)
    \/ \E i \in Inst : build_status(i)
    \/ \E i \in Inst : write_status_get_nowait(i)
    \/ \E i \in Inst : write_status_put(i)
    \/ \E i \in Inst : write_status_return(i)
    \/ \E i \in Inst : sleep(i)
    \/ \E i \in Inst : writer_loop_get(i)
    \/ \E i \in Inst : \E ok \in io_outcomes : write_status_sync_mkstemp(i, ok)
    \/ \E i \in Inst : \E ok \in io_outcomes : write_status_sync_dump(i, ok)
    \/ \E i \in Inst : \E ok \in io_outcomes : write_status_sync_fsync(i, ok)
    \/ \E i \in Inst : \E ok \in io_outcomes : write_status_sync_replace(i, ok)
    \/ \E i \in Inst : write_status_sync_cleanup(i)
    \/ \E i \in Inst : sigint(i)
    \/ \E i \in Inst : process_exit(i)
    \/ \E i \in Inst : terminate(i)
    \/ \E mode \in {"ro", "rw"} : remount(mode)

Spec == Init /\ [][Next]_vars

\* ------------------------------------------------------- fair executions
\* The executions of the liveness properties: no signal, no remount, every
\* file operation of the writer succeeds, and the two threads of a process
\* are scheduled fairly (the writer loop never ends, run() never waits for
\* anything but its commands and its sleep).
writer_thread(i) ==
    \/ writer_loop_get(i)
    \/ write_status_sync_mkstemp(i, TRUE)
    \/ write_status_sync_dump(i, TRUE)
    \/ write_status_sync_fsync(i, TRUE)
    \/ write_status_sync_replace(i, TRUE)
    \/ write_status_sync_cleanup(i)

main_thread(i) ==
    \/ init_flock(i)
    \/ init_start_writer(i)
    \/ get_batman_nodes(i)
    \/ get_wifi_stations(i)
    \/ build_status(i)
    \/ write_status_get_nowait(i)
    \/ write_status_put(i)
    \/ write_status_return(i)
    \/ sleep(i)

NextLive ==
    \/ \E i \in Inst : main_thread(i)
    \/ \E i \in Inst : writer_thread(i)

LiveSpec ==
    /\ Init
    /\ [][NextLive]_vars
    /\ \A i \in Inst : WF_vars(writer_thread(i))
    /\ \A i \in Inst : WF_vars(write_status_get_nowait(i) \/ write_status_put(i)
                                 \/ write_status_return(i))

\* ------------------------------------------------------- values
\* A MAC-shaped token of a text, what [0-9A-Fa-f:]{17} matches: its address,
\* whether its hex digits are upper case, and whether its 17 characters are
\* six two-digit groups separated by colons (the pattern also matches any
\* other run of 17 hex digits and colons).
Mac(a, u, g) == [addr |-> a, upper |-> u, grouped |-> g]

\* No token: the empty string, or None.
NoMac == Mac(0, FALSE, TRUE)

\* str.lower() of a token.
lower(m) == [m EXCEPT !.upper = FALSE]

\* A number a pattern did not find.
NoNum == -1

\* A Python dict: the sequence of its <<key, value>> items in insertion
\* order.  Assigning to a key that exists keeps the key's place.
dict_has(d, key) == \E k \in 1..Len(d) : d[k][1] = key

dict_get(d, key) == d[CHOOSE k \in 1..Len(d) : d[k][1] = key][2]

dict_set(d, key, v) ==
    IF dict_has(d, key)
    THEN [k \in 1..Len(d) |-> IF d[k][1] = key THEN <<key, v>> ELSE d[k]]
    ELSE Append(d, <<key, v>>)

dict_keys(d) == {d[k][1] : k \in 1..Len(d)}

\* ------------------------------------------------------- route table
\* A line of `batctl o`: whether it contains " * ", the MAC-shaped tokens up
\* to its last ")" (all of them when it has none), whether it has a ")", the
\* MAC-shaped tokens after the last ")", the number before its first "s"
\* (\d+(\.\d+)?s) and the number after its first "(".
\* re.search(r"([0-9A-Fa-f:]{17})", line): the first token of the line.
first_mac(line) ==
    IF line.before \o line.after = <<>> THEN NoMac
    ELSE Head(line.before \o line.after)

\* after = line.split(")")[-1] if ")" in line else ""; the first token in it.
nexthop_of(line) ==
    IF line.close /\ line.after # <<>> THEN lower(Head(line.after)) ELSE NoMac

\* The loop body with the local MAC compared as written, without lower().
batman_line_case_sensitive(acc, line, local_mac) ==
    IF ~line.marker THEN acc
    ELSE IF first_mac(line) = NoMac THEN acc
    ELSE IF local_mac # NoMac /\ first_mac(line) = local_mac THEN acc
    ELSE dict_set(acc, lower(first_mac(line)),
                  << <<"last_seen", IF line.seen = NoNum THEN 0 ELSE line.seen>>,
                     <<"throughput", IF line.thr = NoNum THEN 0 ELSE line.thr>>,
                     <<"nexthop", nexthop_of(line)>> >>)

\* The loop body without the `" * " not in line` test.
batman_line_unmarked(acc, line, local_mac) ==
    IF first_mac(line) = NoMac THEN acc
    ELSE IF local_mac # NoMac /\ lower(first_mac(line)) = lower(local_mac) THEN acc
    ELSE dict_set(acc, lower(first_mac(line)),
                  << <<"last_seen", IF line.seen = NoNum THEN 0 ELSE line.seen>>,
                     <<"throughput", IF line.thr = NoNum THEN 0 ELSE line.thr>>,
                     <<"nexthop", nexthop_of(line)>> >>)

\* One iteration of `for raw in out.splitlines()` in get_batman_nodes.
batman_line(acc, line, local_mac) ==
    IF ~line.marker THEN acc
    ELSE IF first_mac(line) = NoMac THEN acc
    ELSE IF local_mac # NoMac /\ lower(first_mac(line)) = lower(local_mac) THEN acc
    ELSE dict_set(acc, lower(first_mac(line)),
                  << <<"last_seen", IF line.seen = NoNum THEN 0 ELSE line.seen>>,
                     <<"throughput", IF line.thr = NoNum THEN 0 ELSE line.thr>>,
                     <<"nexthop", nexthop_of(line)>> >>)

\* get_batman_nodes on the output `out` of the command: the loop over its
\* lines, from the dict `acc` built so far.
RECURSIVE batman_lines(_, _, _)
batman_lines(acc, out, local_mac) ==
    IF out = <<>> THEN acc
    ELSE batman_lines(batman_line(acc, Head(out), local_mac), Tail(out), local_mac)

batman_nodes(out, local_mac) == batman_lines(<<>>, out, local_mac)

\* The lines of the route tables checked: a line without marker, with or
\* without a token; marker lines with no token, a token in either case, a
\* second address, or a run of 17 hex digits; with no last-seen and no ")",
\* or with both and the ")" followed by no, one or two tokens.
MaxRouteLines == 2

RouteMacs == {Mac(1, FALSE, TRUE), Mac(1, TRUE, TRUE), Mac(2, FALSE, TRUE),
              Mac(3, FALSE, FALSE)}

RouteTails == {<<>>, <<Mac(2, TRUE, TRUE)>>, <<Mac(2, FALSE, TRUE), Mac(1, FALSE, TRUE)>>}

RouteLines ==
    {[marker |-> FALSE, before |-> b, close |-> FALSE, after |-> <<>>,
      seen |-> 12, thr |-> NoNum] : b \in {<<>>, <<Mac(1, FALSE, TRUE)>>}}
    \cup
    {[marker |-> TRUE, before |-> b, close |-> FALSE, after |-> <<>>,
      seen |-> NoNum, thr |-> NoNum] :
        b \in {<<>>} \cup {<<m>> : m \in RouteMacs}}
    \cup
    {[marker |-> TRUE, before |-> b, close |-> TRUE, after |-> a,
      seen |-> 12, thr |-> 150] :
        b \in {<<>>} \cup {<<m>> : m \in RouteMacs}, a \in RouteTails}

\* The texts of at most n lines of the set L.
Texts(L, n) == UNION {[1..k -> L] : k \in 0..n}

\* self.local_mac: None, or the lower-cased content of an address file.
LocalMacs == {NoMac, Mac(1, FALSE, TRUE), Mac(2, FALSE, TRUE)}

\* ------------------------------------------------------- link metrics
\* A line of `iw dev <iface> station dump`:
\*   t = "station": a header, name its keyword as written ("Station", or
\*       another spelling such as "station"), mac its MAC-shaped token;
\*   t = "attr": an attribute line "<name>: <val> <unit>", name in lower
\*       case, upper whether name and unit are written in upper case;
\*   t = "other": any other line.
DumpLine(t, name, upper, mac, val, unit) ==
    [t |-> t, name |-> name, upper |-> upper, mac |-> mac, val |-> val, unit |-> unit]

\* re.search(r"\bStation\s+([0-9A-Fa-f:]{17})\b", line): no re.IGNORECASE.
m_station(line) == line.t = "station" /\ line.name = "Station"

\* The attribute patterns are searched with re.IGNORECASE and without
\* anchors: `\bsignal\s+avg:` is also found in "beacon signal avg:".
\* The key a counter line sets.
counter_key(name) ==
    CASE name = "rx packets" -> "rx_packets"
      [] name = "rx drop misc" -> "rx_drop_misc"
      [] name = "tx packets" -> "tx_packets"
      [] name = "tx retries" -> "tx_retries"
      [] name = "tx failed" -> "tx_failed"
      [] OTHER -> "none"

\* _parse_bitrate_to_mbps: the number in front of "MBit/s" or "Mb/s", in any
\* letter case; None (NoNum) without such a unit.
parse_bitrate_to_mbps(val, unit) ==
    IF unit \in {"MBit/s", "Mb/s"} THEN val ELSE NoNum

\* The attribute patterns with `if m:` for the averaged signal, without
\* `and "signal_dbm" not in block`.
station_attr_avg_overwrites(block, line) ==
    IF line.t # "attr" THEN block
    ELSE IF line.name \in {"signal", "signal avg", "beacon signal avg"}
            /\ line.unit = "dBm"
    THEN dict_set(block, "signal_dbm", line.val)
    ELSE IF counter_key(line.name) # "none"
    THEN dict_set(block, counter_key(line.name), line.val)
    ELSE IF line.name \in {"tx bitrate", "rx bitrate"}
    THEN IF parse_bitrate_to_mbps(line.val, line.unit) = NoNum THEN block
         ELSE dict_set(block,
                       IF line.name = "tx bitrate" THEN "tx_bitrate_mbps"
                       ELSE "rx_bitrate_mbps",
                       parse_bitrate_to_mbps(line.val, line.unit))
    ELSE block

\* The attribute patterns with the first signal reading of either kind
\* kept: `"signal_dbm" not in block` on the instantaneous one as well.
station_attr_first_reading(block, line) ==
    IF line.t # "attr" THEN block
    ELSE IF line.name \in {"signal", "signal avg", "beacon signal avg"}
            /\ line.unit = "dBm"
    THEN IF dict_has(block, "signal_dbm") THEN block
         ELSE dict_set(block, "signal_dbm", line.val)
    ELSE IF counter_key(line.name) # "none"
    THEN dict_set(block, counter_key(line.name), line.val)
    ELSE IF line.name \in {"tx bitrate", "rx bitrate"}
    THEN IF parse_bitrate_to_mbps(line.val, line.unit) = NoNum THEN block
         ELSE dict_set(block,
                       IF line.name = "tx bitrate" THEN "tx_bitrate_mbps"
                       ELSE "rx_bitrate_mbps",
                       parse_bitrate_to_mbps(line.val, line.unit))
    ELSE block

\* The attribute patterns applied to a line of the current block.
station_attr(block, line) ==
    IF line.t # "attr" THEN block
    ELSE IF line.name = "signal" /\ line.unit = "dBm"
    THEN dict_set(block, "signal_dbm", line.val)
    ELSE IF line.name \in {"signal avg", "beacon signal avg"} /\ line.unit = "dBm"
    THEN IF dict_has(block, "signal_dbm") THEN block
         ELSE dict_set(block, "signal_dbm", line.val)
    ELSE IF counter_key(line.name) # "none"
    THEN dict_set(block, counter_key(line.name), line.val)
    ELSE IF line.name \in {"tx bitrate", "rx bitrate"}
    THEN IF parse_bitrate_to_mbps(line.val, line.unit) = NoNum THEN block
         ELSE dict_set(block,
                       IF line.name = "tx bitrate" THEN "tx_bitrate_mbps"
                       ELSE "rx_bitrate_mbps",
                       parse_bitrate_to_mbps(line.val, line.unit))
    ELSE block

\* stations[current_mac] = block, `if block`, for an open block.
station_flush(st) ==
    IF st.current_mac # NoMac /\ st.block # <<>>
    THEN dict_set(st.stations, st.current_mac, st.block)
    ELSE st.stations

\* One iteration of `for raw in out.splitlines()` in get_wifi_stations; st
\* holds current_mac (NoMac for None), block, stations and saw_any.
station_line(st, line) ==
    IF m_station(line)
    THEN [current_mac |-> lower(line.mac), block |-> <<>>,
          stations |-> station_flush(st), saw_any |-> TRUE]
    ELSE IF st.current_mac = NoMac THEN st
    ELSE [st EXCEPT !.block = station_attr(st.block, line)]

RECURSIVE station_lines(_, _)
station_lines(st, out) ==
    IF out = <<>> THEN st
    ELSE station_lines(station_line(st, Head(out)), Tail(out))

\* The body of the interface loop for the output `out` of one interface,
\* from an empty stations dict: the lines, then the flush of the open block.
station_dump(out) ==
    station_flush(station_lines([current_mac |-> NoMac, block |-> <<>>,
                                 stations |-> <<>>, saw_any |-> FALSE], out))

\* A variant of the end of the loop body that never breaks.
iface_break_never(stations, saw_any) == FALSE

\* if saw_any: if stations: break.
iface_break(stations, saw_any) == saw_any /\ stations # <<>>

\* The body of `for iface in self.WIFI_IFACES` for interface k, whose command
\* failed (outs[k].ok = FALSE: continue) or printed outs[k].out; `stations`
\* is the dict declared before the loop, `queried` the interfaces whose
\* command has been run.
RECURSIVE iface_loop(_, _, _, _)
iface_loop(stations, outs, k, queried) ==
    IF k > Len(outs) THEN [stations |-> stations, queried |-> queried]
    ELSE IF ~outs[k].ok
    THEN iface_loop(stations, outs, k + 1, queried \cup {k})
    ELSE LET st == station_lines([current_mac |-> NoMac, block |-> <<>>,
                                  stations |-> stations, saw_any |-> FALSE],
                                 outs[k].out)
         IN  IF iface_break(station_flush(st), st.saw_any)
             THEN [stations |-> station_flush(st), queried |-> queried \cup {k}]
             ELSE iface_loop(station_flush(st), outs, k + 1, queried \cup {k})

\* get_wifi_stations for the outcomes of the commands of the interfaces, in
\* the order of WIFI_IFACES.
wifi_ifaces(outs) == iface_loop(<<>>, outs, 1, {})

\* The lines of the station dumps checked.
MaxDumpLines == 4

DumpLines ==
    {DumpLine("station", "Station", FALSE, m, 0, "none") :
        m \in {Mac(1, FALSE, TRUE), Mac(1, TRUE, TRUE), Mac(2, FALSE, TRUE),
               Mac(3, FALSE, FALSE)}}
    \cup {DumpLine("station", "station", FALSE, Mac(2, FALSE, TRUE), 0, "none")}
    \cup {DumpLine("attr", "signal", FALSE, NoMac, 45, "dBm")}
    \cup {DumpLine("attr", "signal avg", FALSE, NoMac, 47, "dBm"),
          DumpLine("attr", "beacon signal avg", FALSE, NoMac, 49, "dBm")}
    \cup {DumpLine("attr", "rx packets", TRUE, NoMac, 103, "none"),
          DumpLine("attr", "tx bitrate", FALSE, NoMac, 65, "MBit/s")}

\* ------------------------------------------------------- power state
\* A directory of /sys/class/power_supply as read_power_info reads it: type
\* as written in its `type` file ("" when the file cannot be read), status
\* ("" when absent, unreadable or empty), capacity (the integer of the
\* `capacity` file, NoNum when it is absent or no integer) and online
\* ("absent", "unreadable", or the stripped content of the `online` file).
Source(type, status, capacity, online) ==
    [type |-> type, status |-> status, capacity |-> capacity, online |-> online]

\* str.lower() of a type.
type_lower(typ) ==
    CASE typ = "Battery" -> "battery"
      [] typ = "Mains" -> "mains"
      [] typ = "USB" -> "usb"
      [] typ = "AC" -> "ac"
      [] typ = "UPS" -> "ups"
      [] OTHER -> typ

\* online = '0' as the default for an absent or unreadable file.
online_of_default_offline(src) ==
    IF src.online \in {"absent", "unreadable"} THEN "0" ELSE src.online

\* online = '1'; if os.path.exists(p_online): try: online = open(...) except
\* Exception: online = '1'.
online_of(src) ==
    IF src.online \in {"absent", "unreadable"} THEN "1" ELSE src.online

\* The loop body without `if 0 <= cap <= 100`.
power_source_dir_any_capacity(acc, src) ==
    LET t == type_lower(src.type)
        st == IF src.status # "" THEN src.status ELSE acc.status
    IN  IF t = "battery"
        THEN [acc EXCEPT !.status = st, !.has_batt = TRUE,
                         !.battery_pct = IF src.capacity # NoNum
                                         THEN src.capacity ELSE @]
        ELSE IF t \in {"mains", "usb", "ac"}
        THEN [acc EXCEPT !.status = st,
                         !.has_ext = @ \/ online_of(src) = "1"]
        ELSE [acc EXCEPT !.status = st]

\* One iteration of `for base in glob.glob(...)`; acc holds info (status,
\* battery_pct), has_batt and has_ext.
power_source_dir(acc, src) ==
    LET t == type_lower(src.type)
        st == IF src.status # "" THEN src.status ELSE acc.status
    IN  IF t = "battery"
        THEN [acc EXCEPT !.status = st, !.has_batt = TRUE,
                         !.battery_pct = IF src.capacity # NoNum /\ 0 <= src.capacity
                                            /\ src.capacity <= 100
                                         THEN src.capacity ELSE @]
        ELSE IF t \in {"mains", "usb", "ac"}
        THEN [acc EXCEPT !.status = st,
                         !.has_ext = @ \/ online_of(src) = "1"]
        ELSE [acc EXCEPT !.status = st]

RECURSIVE power_dirs(_, _)
power_dirs(acc, sources) ==
    IF sources = <<>> THEN acc
    ELSE power_dirs(power_source_dir(acc, Head(sources)), Tail(sources))

\* read_power_info for the directories in the order glob returns them.
power_info(sources) ==
    LET acc == power_dirs([status |-> "", battery_pct |-> NoNum,
                           has_batt |-> FALSE, has_ext |-> FALSE], sources)
    IN  [battery_pct |-> acc.battery_pct,
         status |-> acc.status,
         battery_present |-> acc.has_batt,
         power_source |-> IF acc.has_batt THEN "battery"
                          ELSE IF acc.has_ext THEN "external" ELSE "unknown"]

\* The directories checked.
MaxSources == 2

SourceDirs ==
    {Source("Battery", st, c, "absent") :
        st \in {"", "Charging", "Discharging"}, c \in {NoNum, 40, 82, 150}}
    \cup {Source(ty, st, NoNum, on) :
        ty \in {"Mains", "usb"}, st \in {"", "Charging"},
        on \in {"absent", "unreadable", "1", "0"}}
    \cup {Source(ty, st, NoNum, "1") : ty \in {"", "UPS"}, st \in {"", "Full"}}

\* ------------------------------------------------------- merger
\* The metric fields the merge copies, in the order of its tuple.
MetricKeys == <<"signal_dbm", "rx_packets", "rx_drop_misc", "tx_packets",
                "tx_retries", "tx_failed", "tx_bitrate_mbps", "rx_bitrate_mbps">>

\* peer = stats.get(mac): the lookup without the next hop.
peer_of_own_only(stats_map, mac, info) ==
    IF dict_has(stats_map, mac) THEN dict_get(stats_map, mac) ELSE <<>>

\* peer = stats.get(mac) or stats.get(info.get("nexthop", "")); <<>> for
\* None.  (A block in stats is never empty.)
peer_of(stats_map, mac, info) ==
    IF dict_has(stats_map, mac) /\ dict_get(stats_map, mac) # <<>>
    THEN dict_get(stats_map, mac)
    ELSE IF dict_has(info, "nexthop") /\ dict_has(stats_map, dict_get(info, "nexthop"))
    THEN dict_get(stats_map, dict_get(info, "nexthop"))
    ELSE <<>>

\* for k in (...): if k in peer: info[k] = peer[k], from the k-th key on.
RECURSIVE copy_metrics(_, _, _)
copy_metrics(info, peer, k) ==
    IF k > Len(MetricKeys) THEN info
    ELSE copy_metrics(IF dict_has(peer, MetricKeys[k])
                      THEN dict_set(info, MetricKeys[k], dict_get(peer, MetricKeys[k]))
                      ELSE info,
                      peer, k + 1)

\* The merge loop with nodes[mac] = dict(peer) for a node that has a peer.
merge_nodes_replaced(nodes_map, stats_map) ==
    [k \in 1..Len(nodes_map) |->
        <<nodes_map[k][1],
          IF peer_of(stats_map, nodes_map[k][1], nodes_map[k][2]) # <<>>
          THEN peer_of(stats_map, nodes_map[k][1], nodes_map[k][2])
          ELSE nodes_map[k][2]>>]

\* The merge loop of build_status (hosts is empty: no hostname is set).
merge_nodes(nodes_map, stats_map) ==
    [k \in 1..Len(nodes_map) |->
        <<nodes_map[k][1],
          IF peer_of(stats_map, nodes_map[k][1], nodes_map[k][2]) # <<>>
          THEN copy_metrics(nodes_map[k][2],
                            peer_of(stats_map, nodes_map[k][1], nodes_map[k][2]), 1)
          ELSE nodes_map[k][2]>>]

\* build_local_obj: me = (self.local_mac or "").lower(), then the power
\* fields; battery_pct and status only when set.
build_local_obj(local_mac, sources) ==
    LET p == power_info(sources)
    IN  << <<"mac", lower(local_mac)>>, <<"battery_present", p.battery_present>> >>
        \o (IF p.battery_pct # NoNum THEN << <<"battery_pct", p.battery_pct>> >> ELSE <<>>)
        \o << <<"power_source", p.power_source>> >>
        \o (IF p.status # "" THEN << <<"status", p.status>> >> ELSE <<>>)

\* The clock counts ticks; int(time.time()) is the number of whole seconds.
TicksPerSecond == 2
MaxClock == 3

\* time.time() without int(): the clock as read.
timestamp_untruncated(clock) == clock

timestamp(clock) == clock \div TicksPerSecond

\* build_status called when the clock reads `clock`, for the outputs of the
\* two commands, which take `elapsed` ticks together, the local MAC and the
\* power-supply directories: time.time() is read in the return statement.
status_dict(route_out, dump_out, local_mac, sources, clock, elapsed) ==
    << <<"timestamp", timestamp(clock + elapsed)>>,
       <<"local", build_local_obj(local_mac, sources)>>,
       <<"nodes", merge_nodes(batman_nodes(route_out, local_mac),
                              station_dump(dump_out))>> >>

\* ------------------------------------------------------- calls
\* The collectors and the merger applied to bounded inputs: one call of
\* get_batman_nodes, of the interface loop body of get_wifi_stations, of
\* read_power_info, or two successive calls of build_status on the same
\* inputs.
RouteInputs(n) ==
    {[fn |-> "get_batman_nodes", out |-> t, local_mac |-> m] :
        t \in Texts(RouteLines, n), m \in LocalMacs}

DumpInputs(n) ==
    {[fn |-> "get_wifi_stations", out |-> t] : t \in Texts(DumpLines, n)}

PowerInputs(n) ==
    {[fn |-> "read_power_info", sources |-> q] : q \in Texts(SourceDirs, n)}

\* The outcomes of `iw dev <iface> station dump` for one interface: the
\* command fails, or prints up to n lines (headers of two stations, with or
\* without a signal line).
MaxIfaceLines == 2

IfaceLines ==
    {l \in DumpLines :
        \/ m_station(l) /\ l.mac \in {Mac(1, FALSE, TRUE), Mac(2, FALSE, TRUE)}
        \/ l.t = "attr" /\ l.name = "signal"}

IfaceOutcomes(n) ==
    {[ok |-> FALSE, out |-> <<>>]}
    \cup {[ok |-> TRUE, out |-> t] : t \in Texts(IfaceLines, n)}

IfaceInputs(n) ==
    {[fn |-> "wifi_ifaces", outs |-> o] :
        o \in [1..Len(WIFI_IFACES) -> IfaceOutcomes(n)]}

LocalInputs(n) ==
    {[fn |-> "build_local_obj", local_mac |-> m, sources |-> q] :
        m \in {NoMac, Mac(1, FALSE, TRUE)}, q \in Texts(SourceDirs, n)}

\* An input of build_status: the outputs of the two commands, the local MAC,
\* the power-supply directories, the clock when the call starts, the ticks
\* the commands take, and the clock when the next call starts.
BuildInput(route, dump, local_mac, sources, clock, elapsed, later) ==
    [fn |-> "build_status", route |-> route, dump |-> dump, local_mac |-> local_mac,
     sources |-> sources, clock |-> clock, elapsed |-> elapsed, later |-> later]

\* Route lines and dump lines of the merge inputs: originators 1 and 2 with
\* either as next hop, stations 1 and 2 with a signal or a counter.
MergeRouteLines ==
    {l \in RouteLines : /\ l.marker /\ l.close /\ l.seen = 12
                        /\ l.before \in {<<Mac(1, FALSE, TRUE)>>, <<Mac(2, FALSE, TRUE)>>}}

MergeDumpLines ==
    {l \in DumpLines :
        \/ l.t = "station" /\ l.name = "Station"
             /\ l.mac \in {Mac(1, TRUE, TRUE), Mac(2, FALSE, TRUE)}
        \/ l.t = "attr" /\ l.name = "signal" /\ l.val = 45
        \/ l.t = "attr" /\ l.name = "rx packets"}

\* build_status for every route table and local MAC (no station, no
\* power-supply directory).
RouteBuildInputs(n) ==
    {BuildInput(t, <<>>, m, <<>>, 0, 0, 0) :
        t \in Texts(RouteLines, n), m \in LocalMacs}

\* build_status for the route tables and station dumps of the merge.
MergeBuildInputs(n, m) ==
    {BuildInput(t, d, NoMac, <<>>, 0, 0, 0) :
        t \in Texts(MergeRouteLines, n), d \in Texts(MergeDumpLines, m)}

\* build_status at every clock value, with commands that take up to a second,
\* and the next call up to a second later.
ClockBuildInputs(n) ==
    {BuildInput(t, d, Mac(1, FALSE, TRUE), q, c, e, c + w) :
        t \in Texts(MergeRouteLines, 1), d \in Texts(MergeDumpLines, 2),
        q \in Texts({Source("Battery", "Charging", 82, "absent")}, 1),
        c \in 0..n, e \in 0..TicksPerSecond, w \in 0..TicksPerSecond}

call_get_batman_nodes ==
    /\ input.fn = "get_batman_nodes" /\ output = NoOutput
    /\ output' = [fn |-> input.fn, ret |-> batman_nodes(input.out, input.local_mac)]
    /\ UNCHANGED <<progVars, refVars, input>>

call_get_wifi_stations ==
    /\ input.fn = "get_wifi_stations" /\ output = NoOutput
    /\ output' = [fn |-> input.fn, ret |-> station_dump(input.out)]
    /\ UNCHANGED <<progVars, refVars, input>>

call_wifi_ifaces ==
    /\ input.fn = "wifi_ifaces" /\ output = NoOutput
    /\ output' = [fn |-> input.fn, ret |-> wifi_ifaces(input.outs).stations,
                  queried |-> wifi_ifaces(input.outs).queried]
    /\ UNCHANGED <<progVars, refVars, input>>

call_read_power_info ==
    /\ input.fn = "read_power_info" /\ output = NoOutput
    /\ output' = [fn |-> input.fn, ret |-> power_info(input.sources)]
    /\ UNCHANGED <<progVars, refVars, input>>

call_build_local_obj ==
    /\ input.fn = "build_local_obj" /\ output = NoOutput
    /\ output' = [fn |-> input.fn,
                  ret |-> build_local_obj(input.local_mac, input.sources)]
    /\ UNCHANGED <<progVars, refVars, input>>

\* The first call of build_status; output.ret holds the dicts returned so
\* far.
call_build_status ==
    /\ input.fn = "build_status" /\ output = NoOutput
    /\ output' = [fn |-> input.fn,
                  ret |-> <<status_dict(input.route, input.dump, input.local_mac,
                                        input.sources, input.clock, input.elapsed)>>]
    /\ UNCHANGED <<progVars, refVars, input>>

\* The call of the next poll cycle, on the same inputs.
call_build_status_again ==
    /\ output.fn = "build_status" /\ Len(output.ret) = 1
    /\ output' = [output EXCEPT !.ret =
                    Append(@, status_dict(input.route, input.dump, input.local_mac,
                                          input.sources, input.later, input.elapsed))]
    /\ UNCHANGED <<progVars, refVars, input>>

InitCalls ==
    /\ InitProcesses
    /\ \/ input \in RouteInputs(MaxRouteLines)
       \/ input \in DumpInputs(MaxDumpLines)
       \/ input \in IfaceInputs(MaxIfaceLines)
       \/ input \in PowerInputs(MaxSources)
       \/ input \in LocalInputs(MaxSources)
       \/ input \in RouteBuildInputs(MaxRouteLines)
       \/ input \in MergeBuildInputs(MaxRouteLines, MaxDumpLines - 1)
       \/ input \in ClockBuildInputs(MaxClock)
    /\ output = NoOutput
    /\ InitRefs

NextCalls ==
    \/ call_get_batman_nodes
    \/ call_get_wifi_stations
    \/ call_wifi_ifaces
    \/ call_read_power_info
    \/ call_build_local_obj
    \/ call_build_status
    \/ call_build_status_again

CallSpec == InitCalls /\ [][NextCalls]_vars

\* ------------------------------------------------------- references
\* The poll loop and the writer thread of one running process with the
\* snapshot as Python holds it: build_status returns a new dict that refers
\* to the nodes dict get_batman_nodes made, write_status puts a reference to
\* it into the queue, and json.dump reads through the reference when the
\* writer thread gets to it.
\* A variant of get_batman_nodes that keeps one dict for all calls
\* (self._nodes.clear() instead of nodes = {}).
nodes_dict_kept(c) == 1

\* nodes: Dict = {} in get_batman_nodes: a new dict for each call; the call
\* of cycle c gets address c.
nodes_dict(c) == c

\* What a snapshot holds when read through its references.
content(h, p) == [timestamp |-> p.timestamp, nodes |-> h[p.nodes]]

\* run(): the next cycle starts; get_batman_nodes fills its dict from the
\* route table of this cycle.
ref_get_batman_nodes ==
    /\ hpc = "batctl" /\ hcycle < MaxCycle
    /\ hcycle' = hcycle + 1
    /\ hnodes' = nodes_dict(hcycle + 1)
    /\ heap' = [heap EXCEPT ![nodes_dict(hcycle + 1)] =
                    [seq |-> hcycle + 1, merged |-> FALSE]]
    /\ hpc' = "merge"
    /\ UNCHANGED <<hpayload, hqueue, hwpc, hwitem, hdumped>>
    /\ UNCHANGED <<progVars, callVars>>

\* The merge loop: info[k] = peer[k] writes into the dicts of nodes, in
\* place, when a node has a peer.
ref_merge ==
    /\ hpc = "merge"
    /\ \E peer \in BOOLEAN : heap' = [heap EXCEPT ![hnodes].merged = peer]
    /\ hpc' = "return"
    /\ UNCHANGED <<hcycle, hnodes, hpayload, hqueue, hwpc, hwitem, hdumped>>
    /\ UNCHANGED <<progVars, callVars>>

\* return {"timestamp": ..., "local": local, "nodes": nodes}: a new dict
\* that refers to nodes; run() binds it to payload.
ref_return ==
    /\ hpc = "return"
    /\ hpayload' = [timestamp |-> hcycle, nodes |-> hnodes]
    /\ hpc' = "ws_get"
    /\ UNCHANGED <<heap, hcycle, hnodes, hqueue, hwpc, hwitem, hdumped>>
    /\ UNCHANGED <<progVars, callVars>>

\* write_status: the pending item is dropped.
ref_write_status_get_nowait ==
    /\ hpc = "ws_get"
    /\ hqueue' = get_nowait(hqueue)
    /\ hpc' = "ws_put"
    /\ UNCHANGED <<heap, hcycle, hnodes, hpayload, hwpc, hwitem, hdumped>>
    /\ UNCHANGED <<progVars, callVars>>

\* write_status: put(payload) stores the reference; `submitted` records
\* what the snapshot holds at this moment.
ref_write_status_put ==
    /\ hpc = "ws_put"
    /\ Len(hqueue) < QueueMaxsize
    /\ hqueue' = Append(hqueue, [payload |-> hpayload,
                                 submitted |-> content(heap, hpayload)])
    /\ hpc' = "sleep"
    /\ UNCHANGED <<heap, hcycle, hnodes, hpayload, hwpc, hwitem, hdumped>>
    /\ UNCHANGED <<progVars, callVars>>

\* run(): time.sleep(POLL_INTERVAL_SEC) returns; payload still refers to
\* the snapshot until the next build_status returns.
ref_sleep ==
    /\ hpc = "sleep"
    /\ hpc' = "batctl"
    /\ UNCHANGED <<heap, hcycle, hnodes, hpayload, hqueue, hwpc, hwitem, hdumped>>
    /\ UNCHANGED <<progVars, callVars>>

\* _writer_loop: payload = self._write_queue.get(timeout=1).
ref_writer_loop_get ==
    /\ hwpc = "get"
    /\ hqueue # <<>>
    /\ hwitem' = Head(hqueue)
    /\ hqueue' = Tail(hqueue)
    /\ hwpc' = "dump"
    /\ UNCHANGED <<heap, hpc, hcycle, hnodes, hpayload, hdumped>>
    /\ UNCHANGED <<progVars, callVars>>

\* _write_status_sync: json.dump(payload, f) serializes what the snapshot
\* holds now; `during` is the cycle the main thread is in.
ref_write_status_sync_dump ==
    /\ hwpc = "dump"
    /\ hdumped' = hdumped \cup {[submitted |-> hwitem.submitted,
                                  written |-> content(heap, hwitem.payload),
                                  during |-> hcycle]}
    /\ hwitem' = NoItem
    /\ hwpc' = "get"
    /\ UNCHANGED <<heap, hpc, hcycle, hnodes, hpayload, hqueue>>
    /\ UNCHANGED <<progVars, callVars>>

NextRefs ==
    \/ ref_get_batman_nodes
    \/ ref_merge
    \/ ref_return
    \/ ref_write_status_get_nowait
    \/ ref_write_status_put
    \/ ref_sleep
    \/ ref_writer_loop_get
    \/ ref_write_status_sync_dump

RefSpec == Init /\ [][NextRefs]_vars

\* ------------------------------------------------------- properties
\* The snapshots a process can build.
Snapshots ==
    [by : Inst, seq : 1..MaxCycle, nodes : {"empty", "routes", "routes+metrics"}]

\* The destination file holds the complete snapshot s.
Published(s) == dest = [snap |-> s, st |-> "complete"]

\* C1: in every step, kills included, the destination file is absent only
\* as long as nothing was published and otherwise holds a complete snapshot:
\* it stays what it was or becomes, in the one step of a writer's os.replace,
\* the complete snapshot that writer is publishing.  It is never partial,
\* truncated or removed.
C1_DestAlwaysComplete ==
    [][ /\ dest'.st \in {"missing", "complete"}
        /\ dest.st = "complete" => dest'.st = "complete"
        /\ dest' # dest =>
             \E i \in Inst : /\ wpc[i] = "replace"
                             /\ Published(wpayload[i])' ]_vars

\* C1 witness: a process was killed between mkstemp and os.replace (its
\* temporary file is left behind) and the destination still holds the
\* complete snapshot that process had published before.
C1_KilledMidWrite ==
    \E i \in Inst :
        /\ exit[i] = "killed"
        /\ fs = "rw"
        /\ dest.st = "complete" /\ dest.snap.by = i
        /\ \E t \in tmpfiles : t.name[1] = i /\ t.st = "orphan"

\* Process i is in an attempt of _write_status_sync that has not reached
\* os.replace, or is cleaning up after a step before os.replace failed.
BeforeReplace(i) ==
    \/ wpc[i] \in {"mkstemp", "dump", "fsync"}
    \/ wpc[i] = "cleanup" /\ werr[i] \in {"dump", "fsync"}

\* A step in which _write_status_sync of process i returns after mkstemp,
\* json.dump, flush or fsync has failed.
FailedReturn(i) ==
    /\ \/ wpc[i] = "mkstemp"
       \/ wpc[i] = "cleanup" /\ werr[i] \in {"dump", "fsync"}
    /\ wpc'[i] = "get"

\* C2 (as stated): whenever a step before the replace has failed, the
\* destination is not changed by the attempt and, when _write_status_sync
\* returns, the temporary file of the attempt no longer exists.
C2_TempAlwaysRemoved ==
    [][ \A i \in Inst :
          /\ BeforeReplace(i) => dest' = dest
          /\ FailedReturn(i) => ~ \E t \in tmpfiles' : t.name = wtmp[i] ]_vars

\* C2 (amended): whenever a step before the replace has failed, the
\* destination is not changed by the attempt and, when _write_status_sync
\* returns, the temporary file of the attempt no longer exists unless the
\* filesystem is read-only, where the unlink fails too and is swallowed.
C2_TempRemovedUnlessReadOnly ==
    [][ \A i \in Inst :
          /\ BeforeReplace(i) => dest' = dest
          /\ FailedReturn(i) =>
               \/ fs = "ro"
               \/ ~ \E t \in tmpfiles' : t.name = wtmp[i] ]_vars

\* C2 witness: the writer is back in its loop after an attempt that failed
\* (the snapshot it took is not the published one), the destination holds
\* the older complete snapshot and no temporary file is left.
C2_FailedAttemptCleaned ==
    \E i \in Inst :
        /\ wpc[i] = "get" /\ wpayload[i] # NoSnap
        /\ dest.st = "complete" /\ dest.snap.by = i
        /\ dest.snap # wpayload[i]
        /\ tmpfiles = {}
        /\ fs = "rw"

\* C3 (as stated): the queue never holds more than one snapshot, and in the
\* step in which write_status(p) returns the queue holds exactly p.
C3_QueueHoldsPayloadAtReturn ==
    [][ \A i \in Inst :
          /\ Len(queue'[i]) <= 1
          /\ (pc[i] \in {"ws_get", "ws_put", "ws_ret"} /\ pc'[i] = "sleep")
               => queue'[i] = <<payload[i]>> ]_vars

\* C3 (amended): the queue never holds more than one snapshot; right after
\* the put of write_status(p) it holds exactly p (a pending snapshot was
\* discarded, never queued behind), and when write_status(p) returns it
\* holds exactly p unless the writer thread has already taken p.
C3_QueueHoldsPayloadUnlessTaken ==
    [][ \A i \in Inst :
          /\ Len(queue'[i]) <= 1
          /\ (pc[i] = "ws_put" /\ pc'[i] # "ws_put" /\ phase'[i] = "running")
               => queue'[i] = <<payload[i]>>
          /\ (pc[i] \in {"ws_get", "ws_put", "ws_ret"} /\ pc'[i] = "sleep")
               => \/ queue'[i] = <<payload[i]>>
                  \/ queue'[i] = <<>> /\ wpayload'[i] = payload[i] ]_vars

\* C3 witness: the first process has built two snapshots, the writer thread
\* has taken none, and after the second write_status the queue holds the
\* second snapshot alone: the first one was discarded.
C3_PendingReplaced ==
    /\ phase[1] = "running" /\ phase[2] = "new"
    /\ pc[1] = "sleep"
    /\ payload[1].seq = 2
    /\ wpayload[1] = NoSnap
    /\ queue[1] = <<payload[1]>>

C5_EventuallyPersisted ==
    /\ \A s \in Snapshots :
         (queue[s.by] = <<s>>)
           ~> (Published(s) \/ (queue[s.by] # <<>> /\ Head(queue[s.by]).seq > s.seq))
    /\ \A i \in Inst :
         (/\ payload[i] # NoSnap
          /\ \/ pc[i] \in {"sleep", "batctl"} /\ ncycles = MaxCycle
             \/ hung[i])
           ~> Published(payload[i])

\* C5 witness: the first process has submitted its second snapshot, the
\* writer thread has taken it and the destination holds it.
C5_SecondPublished ==
    /\ payload[1].seq = 2
    /\ Published(payload[1])
    /\ wpayload[1] = payload[1]
    /\ queue[1] = <<>>

\* C6: an instance that was started and found the lock held has stopped with
\* exit status 0, has no writer thread, has created no temporary file and
\* has not written the status file.
C6_SecondInstanceExits ==
    \A i \in Inst :
        (phase[i] # "new" /\ lock # i /\ exit[i] \notin {"sigint", "killed", "crash"})
          => /\ phase[i] = "stopped"
             /\ exit[i] = "lock_busy" /\ ExitCode(exit[i]) = 0
             /\ wpc[i] = "none"
             /\ \A t \in tmpfiles : t.name[1] # i
             /\ dest.snap.by # i

\* C6 witness: an instance has exited on the held lock while the holder has
\* published a snapshot and is running.
C6_ContendedStart ==
    \E i, j \in Inst :
        /\ exit[i] = "lock_busy"
        /\ lock = j /\ phase[j] = "running"
        /\ dest.st = "complete" /\ dest.snap.by = j

\* C7: at most one instance is running (has a writer thread or executes
\* poll cycles) at a time, and while one is running every other instance
\* that was started is stopped.
C7_AtMostOneRunning ==
    /\ Cardinality({i \in Inst : Running(i)}) <= 1
    /\ \A i, j \in Inst :
         (Running(i) /\ j # i) => phase[j] \in {"new", "stopped"}

\* C7 witness: an instance is running and has published a snapshot after
\* an earlier lock holder was killed.
C7_Takeover ==
    \E i, j \in Inst :
        /\ i # j
        /\ exit[j] = "killed"
        /\ Running(i) /\ lock = i
        /\ dest.st = "complete" /\ dest.snap.by = i

\* C8 (as stated): a command that never returns does not stall the poll
\* loop: whenever the main thread waits in a command, the collector can
\* still return.
C8_CommandsTimeOut ==
    \A i \in Inst :
        (phase[i] = "running" /\ hung[i])
          => ENABLED (get_batman_nodes(i) \/ get_wifi_stations(i))

\* C9 (as stated): after SIGINT no new poll cycle is started, and a process
\* ended by SIGINT or SIGTERM ends with its writer thread outside
\* _write_status_sync: a write that had begun was carried through.
C9_WriteCarriedThrough ==
    [][ \A i \in Inst :
          /\ phase[i] = "exiting" => (pc'[i] = "none" /\ ncycles' = ncycles)
          /\ (phase[i] \in {"running", "exiting"} /\ phase'[i] = "stopped"
                /\ exit'[i] \in {"sigint", "killed"})
               => wpc[i] = "get" ]_vars

\* C10: no process dies of an exception; when the snapshot of a cycle has
\* been built, a collector that failed has contributed an empty result (no
\* routes after a failed batctl, no link metrics after failed station dumps,
\* the power defaults after failed reads); the snapshot is submitted, and
\* after the sleep the next cycle can start.
C10_FailuresNeverAbort ==
    \A i \in Inst :
        /\ exit[i] # "crash"
        /\ (phase[i] = "running" /\ pc[i] = "ws_get")
             => /\ payload[i].by = i /\ payload[i].seq = cycle[i]
                /\ "batctl" \in errs[i] => payload[i].nodes = "empty"
                /\ "iw" \in errs[i] => payload[i].nodes # "routes+metrics"
                /\ "power" \in errs[i] => pinfo[i] = "unknown"
        /\ (phase[i] = "running" /\ pc[i] = "sleep")
             => /\ queue[i] = <<payload[i]>> \/ wpayload[i] = payload[i]
                /\ ENABLED sleep(i)

\* C10 witness: a cycle in which batctl, every station dump and the power
\* reads all failed has built its snapshot and is about to submit it.
C10_AllCollectorsFailed ==
    \E i \in Inst :
        /\ phase[i] = "running" /\ pc[i] = "ws_get"
        /\ errs[i] = {"batctl", "iw", "power"}
        /\ payload[i].nodes = "empty"

\* C11: in every snapshot build_status returns, for any route table (also one
\* that lists the local node as an originator, in either letter case), the
\* value of local.mac is not a key of nodes.
C11_LocalMacNotInNodes ==
    output.fn = "build_status" =>
        \A k \in 1..Len(output.ret) :
            dict_get(dict_get(output.ret[k], "local"), "mac")
                \notin dict_keys(dict_get(output.ret[k], "nodes"))

\* A snapshot built from a route table that lists the local node in upper
\* case next to another originator.
C11_LocalListedUpperCase ==
    /\ output.fn = "build_status"
    /\ input.local_mac = Mac(1, FALSE, TRUE)
    /\ \E k \in 1..Len(input.route) :
          input.route[k].marker /\ first_mac(input.route[k]) = Mac(1, TRUE, TRUE)
    /\ dict_get(output.ret[1], "nodes") # <<>>

\* C12: every key of the nodes map and of the link-metrics map, for any
\* command output, is a lower-case MAC address of six two-digit groups
\* separated by colons.
C12_KeysAreMacAddresses ==
    output.fn \in {"get_batman_nodes", "get_wifi_stations"} =>
        \A key \in dict_keys(output.ret) : ~key.upper /\ key.grouped

\* The node record `info` carries the metrics of the station record `rec`,
\* and no other metric.
CarriesMetricsOf(info, rec) ==
    /\ \A j \in 1..Len(rec) :
          dict_has(info, rec[j][1]) /\ dict_get(info, rec[j][1]) = rec[j][2]
    /\ \A j \in 1..Len(MetricKeys) :
          dict_has(info, MetricKeys[j]) => dict_has(rec, MetricKeys[j])

\* The nodes of the first snapshot returned, and the maps the two collectors
\* return for the command outputs of the call.
BuiltNodes == dict_get(output.ret[1], "nodes")

CollectedNodes == batman_nodes(input.route, input.local_mac)

CollectedStations == station_dump(input.dump)

\* C13: every node record of a snapshot carries the metrics of the station
\* record keyed by its own MAC when there is one, and otherwise those of the
\* station record keyed by its nexthop when there is one.
C13_MergeOwnThenNexthop ==
    output.fn = "build_status" =>
        \A k \in 1..Len(BuiltNodes) :
            LET mac == BuiltNodes[k][1]
                info == BuiltNodes[k][2]
                nh == dict_get(info, "nexthop")
            IN  IF dict_has(CollectedStations, mac)
                THEN CarriesMetricsOf(info, dict_get(CollectedStations, mac))
                ELSE dict_has(CollectedStations, nh) =>
                        CarriesMetricsOf(info, dict_get(CollectedStations, nh))

\* Metrics exist only under address 2; the route entry of address 1 has
\* nexthop 2 and carries the signal of station 2.
C13_NexthopFallback ==
    /\ output.fn = "build_status"
    /\ dict_keys(CollectedStations) = {Mac(2, FALSE, TRUE)}
    /\ \E k \in 1..Len(BuiltNodes) :
          /\ BuiltNodes[k][1] = Mac(1, FALSE, TRUE)
          /\ dict_get(BuiltNodes[k][2], "nexthop") = Mac(2, FALSE, TRUE)
          /\ dict_has(BuiltNodes[k][2], "signal_dbm")

\* The fields the route table collector sets.
RoutingKeys == {"last_seen", "throughput", "nexthop"}

\* C14: the merge leaves last_seen, throughput and nexthop of every node
\* record as the route table collector set them, and a node for which neither
\* its own MAC nor its nexthop has a station record is exactly the record the
\* collector returned: those three fields and no others.
C14_RoutingFieldsKept ==
    output.fn = "build_status" =>
        /\ Len(BuiltNodes) = Len(CollectedNodes)
        /\ \A k \in 1..Len(BuiltNodes) :
            LET mac == BuiltNodes[k][1]
                info == BuiltNodes[k][2]
                route == CollectedNodes[k][2]
            IN  /\ mac = CollectedNodes[k][1]
                /\ \A key \in RoutingKeys :
                      dict_has(info, key) /\ dict_get(info, key) = dict_get(route, key)
                /\ (~dict_has(CollectedStations, mac)
                        /\ ~dict_has(CollectedStations, dict_get(route, "nexthop")))
                   => /\ info = route
                      /\ dict_keys(info) = RoutingKeys

\* A snapshot with a node that took metrics and a node with no station record
\* under its own MAC or its nexthop.
C14_MatchedAndUnmatched ==
    /\ output.fn = "build_status"
    /\ \E k \in 1..Len(BuiltNodes) : dict_has(BuiltNodes[k][2], "signal_dbm")
    /\ \E k \in 1..Len(BuiltNodes) :
          /\ ~dict_has(CollectedStations, BuiltNodes[k][1])
          /\ ~dict_has(CollectedStations, dict_get(BuiltNodes[k][2], "nexthop"))
          /\ dict_get(BuiltNodes[k][2], "nexthop") # NoMac

\* C15: the timestamp of a snapshot is the wall-clock second in which its
\* build started, before the two commands of the cycle ran, however long
\* they take.
C15_TimestampAtBuildStart ==
    output.fn = "build_status" =>
        dict_get(output.ret[1], "timestamp") = input.clock \div TicksPerSecond

\* The source is a battery; the source is an external supply.
IsBattery(src) == type_lower(src.type) = "battery"

IsExternal(src) == type_lower(src.type) \in {"mains", "usb", "ac"}

\* The classification of the sources when an external supply counts as
\* online for the values `on` of its online attribute.
Classified(sources, on) ==
    IF \E k \in 1..Len(sources) : IsBattery(sources[k]) THEN "battery"
    ELSE IF \E k \in 1..Len(sources) :
                IsExternal(sources[k]) /\ sources[k].online \in on
    THEN "external"
    ELSE "unknown"

\* C16 as stated: power_source is "battery" if any source is a battery,
\* otherwise "external" if any mains/usb/ac source has its online attribute
\* absent or equal to "1", otherwise "unknown".
C16_PowerSourceAbsentOrOne ==
    output.fn = "read_power_info" =>
        output.ret.power_source = Classified(input.sources, {"absent", "1"})

\* C16 amended: an external source also counts as online when its online
\* attribute exists and cannot be read.
C16_PowerSourceUnreadableToo ==
    output.fn = "read_power_info" =>
        output.ret.power_source
            = Classified(input.sources, {"absent", "unreadable", "1"})

\* A battery next to an external source that is online: "battery".
C16_BatteryBesideOnlineMains ==
    /\ output.fn = "read_power_info"
    /\ \E k \in 1..Len(input.sources) : IsBattery(input.sources[k])
    /\ \E k \in 1..Len(input.sources) :
          IsExternal(input.sources[k]) /\ input.sources[k].online = "1"
    /\ output.ret.power_source = "battery"

\* A well-formed marker line: it has the row marker and a MAC-shaped token.
WellFormed(line) == line.marker /\ (line.before \o line.after) # <<>>

\* The well-formed marker lines of the route table of the call, and their
\* originators in lower case.
WellFormedLines == SelectSeq(input.out, WellFormed)

Originators ==
    {lower(Head(WellFormedLines[k].before \o WellFormedLines[k].after)) :
        k \in 1..Len(WellFormedLines)}

\* C17 as stated: for a route table with N well-formed marker lines and M
\* other lines, get_batman_nodes returns exactly N entries, and none whose
\* MAC is the local MAC.
C17_OneEntryPerMarkerLine ==
    output.fn = "get_batman_nodes" =>
        /\ Len(output.ret) = Len(WellFormedLines)
        /\ lower(input.local_mac) \notin dict_keys(output.ret)

\* C17 amended: get_batman_nodes returns one entry per distinct originator
\* (compared in lower case) of the well-formed marker lines other than the
\* local MAC, hence exactly N entries when the N originators are pairwise
\* distinct and none is the local MAC; the result is the one for the
\* well-formed marker lines alone, whatever the other lines contain.
C17_OneEntryPerOriginator ==
    output.fn = "get_batman_nodes" =>
        /\ dict_keys(output.ret) = Originators \ {lower(input.local_mac)}
        /\ Len(output.ret) = Cardinality(Originators \ {lower(input.local_mac)})
        /\ (Cardinality(Originators) = Len(WellFormedLines)
                /\ lower(input.local_mac) \notin Originators)
           => Len(output.ret) = Len(WellFormedLines)
        /\ output.ret = batman_nodes(WellFormedLines, input.local_mac)
        /\ lower(input.local_mac) \notin dict_keys(output.ret)

\* A route table with one well-formed marker line and one line without the
\* marker that holds a MAC-shaped token: one entry.
C17_OneOfTwoLinesCounted ==
    /\ output.fn = "get_batman_nodes"
    /\ Len(input.out) = 2
    /\ Len(WellFormedLines) = 1
    /\ \E k \in 1..2 : ~input.out[k].marker /\ input.out[k].before # <<>>
    /\ Len(output.ret) = 1

\* Two dicts are equal as Python compares them: the same keys with the same
\* values, in any order; and two station maps, whose values are dicts.
SameDict(a, b) ==
    /\ dict_keys(a) = dict_keys(b)
    /\ \A key \in dict_keys(a) : dict_get(a, key) = dict_get(b, key)

SameStations(a, b) ==
    /\ dict_keys(a) = dict_keys(b)
    /\ \A key \in dict_keys(a) : SameDict(dict_get(a, key), dict_get(b, key))

\* The positions of the station headers of a dump, and the end of the block
\* that starts at header position i.
HeaderPositions(t) == {i \in 1..Len(t) : m_station(t[i])}

BlockEnd(t, i) ==
    IF \E j \in HeaderPositions(t) : j > i
    THEN (CHOOSE j \in HeaderPositions(t) :
            j > i /\ \A h \in HeaderPositions(t) : h > i => j <= h) - 1
    ELSE Len(t)

\* The dump with the block at header position i and the block after it
\* exchanged.
SwapBlocks(t, i) ==
    LET j == BlockEnd(t, i) + 1
        k == BlockEnd(t, j)
    IN  SubSeq(t, 1, i - 1) \o SubSeq(t, j, k) \o SubSeq(t, i, j - 1)
            \o SubSeq(t, k + 1, Len(t))

\* The dump with lines i and i + 1 exchanged.
SwapLines(t, i) ==
    [k \in 1..Len(t) |-> IF k = i THEN t[i + 1] ELSE IF k = i + 1 THEN t[i] ELSE t[k]]

\* The dump with the letter case of line i changed: the MAC of a header, the
\* name and unit of an attribute line.
ToggleCase(t, i) ==
    [t EXCEPT ![i] = IF @.t = "station" THEN [@ EXCEPT !.mac.upper = ~@]
                     ELSE [@ EXCEPT !.upper = ~@]]

\* The dumps obtained from t by exchanging two neighbouring station blocks,
\* by exchanging two neighbouring lines of a block, or by changing the
\* letter case of a line; every permutation of the blocks and of the lines
\* of a block is a chain of such exchanges.
Rearranged(t) ==
    {SwapBlocks(t, i) : i \in {h \in HeaderPositions(t) : BlockEnd(t, h) < Len(t)}}
    \cup {SwapLines(t, i) :
            i \in {k \in 1..(Len(t) - 1) : ~m_station(t[k]) /\ ~m_station(t[k + 1])}}
    \cup {ToggleCase(t, i) : i \in 1..Len(t)}

\* The attribute pattern that finds a line: the averaged signal pattern also
\* finds "beacon signal avg".
PatternOf(line) ==
    IF line.t # "attr" THEN "none"
    ELSE IF line.name = "beacon signal avg" THEN "signal avg"
    ELSE line.name

\* No station is listed twice, in any letter case, and no two lines of a
\* block are found by the same attribute pattern.
SingleReadings(t) ==
    /\ \A i, j \in HeaderPositions(t) : lower(t[i].mac) = lower(t[j].mac) => i = j
    /\ \A i \in HeaderPositions(t) : \A k, l \in (i + 1)..BlockEnd(t, i) :
          (PatternOf(t[k]) # "none" /\ PatternOf(t[k]) = PatternOf(t[l])) => k = l

\* C18 as stated: for any station dump, permuting the station blocks or the
\* attribute lines of a block, and changing the letter case of MACs and
\* attribute names, gives the same station map.
C18_OrderAndCaseIndependent ==
    output.fn = "get_wifi_stations" =>
        \A t \in Rearranged(input.out) : SameStations(station_dump(t), output.ret)

\* C18 amended: the same, for a dump that lists no station twice and in
\* which no block has two lines found by the same attribute pattern.
C18_OrderAndCaseIndependentSingle ==
    (output.fn = "get_wifi_stations" /\ SingleReadings(input.out)) =>
        \A t \in Rearranged(input.out) : SameStations(station_dump(t), output.ret)

\* A dump of two blocks, one with its MAC in upper case, each with a reading:
\* two stations, and the blocks can be exchanged.
C18_TwoBlocksParsed ==
    /\ output.fn = "get_wifi_stations"
    /\ SingleReadings(input.out)
    /\ HeaderPositions(input.out) = {1, 3}
    /\ input.out[1].mac.upper
    /\ Len(output.ret) = 2
    /\ SwapBlocks(input.out, 1) \in Rearranged(input.out)
    /\ SwapBlocks(input.out, 1) # input.out

\* build_status has returned twice for the same command outputs, local MAC
\* and power-supply directories.
BuiltTwice == output.fn = "build_status" /\ Len(output.ret) = 2

\* The second in which a build that starts at `clock` returns.
EndSecond(clock) == (clock + input.elapsed) \div TicksPerSecond

C19_SnapshotUnchangedAfterHandOff ==
    /\ \A k \in 1..Len(hqueue) :
          content(heap, hqueue[k].payload) = hqueue[k].submitted
    /\ hwitem # NoItem => content(heap, hwitem.payload) = hwitem.submitted
    /\ \A r \in hdumped : r.written = r.submitted

\* A snapshot with merged metrics was serialized while the main thread was
\* in a later poll cycle and had filled and merged the nodes of that cycle.
C19_SerializedDuringLaterCycle ==
    \E r \in hdumped :
        /\ r.submitted.nodes.merged
        /\ r.during > r.submitted.timestamp
        /\ heap[r.during] # NoDict

\* The lines of the route table of the call that get_batman_nodes accepts
\* for the key `mac`.
AcceptedFor(mac) ==
    {k \in 1..Len(input.out) :
        WellFormed(input.out[k])
        /\ lower(Head(input.out[k].before \o input.out[k].after)) = mac}

\* C21: the nexthop of every entry is the last MAC-shaped token after the
\* final ")" of the line the entry was made from, and the empty string when
\* there is no such token.
C21_NexthopIsLastToken ==
    output.fn = "get_batman_nodes" =>
        \A e \in 1..Len(output.ret) :
            LET k == CHOOSE k \in AcceptedFor(output.ret[e][1]) :
                        \A j \in AcceptedFor(output.ret[e][1]) : j <= k
                line == input.out[k]
            IN  dict_get(output.ret[e][2], "nexthop")
                  = IF line.close /\ line.after # <<>>
                    THEN lower(line.after[Len(line.after)])
                    ELSE NoMac

\* The interfaces of the call in priority order, those whose command printed
\* at least one station header, and those whose output gave at least one
\* station with a recognized attribute.
Ifaces == 1..Len(input.outs)

IfacesWithBlock ==
    {k \in Ifaces : input.outs[k].ok /\ HeaderPositions(input.outs[k].out) # {}}

IfacesWithStation ==
    {k \in Ifaces : input.outs[k].ok /\ station_dump(input.outs[k].out) # <<>>}

\* The least interface of a non-empty set.
First(S) == CHOOSE k \in S : \A j \in S : k <= j

\* The interfaces up to the first of S are queried, no later one, and the
\* result is the station map of that interface alone; with S empty all
\* interfaces are queried and the result is empty.
StopsAtFirstOf(S) ==
    IF S = {}
    THEN output.queried = Ifaces /\ output.ret = <<>>
    ELSE /\ output.queried = 1..First(S)
         /\ output.ret = station_dump(input.outs[First(S)].out)

\* C22 as stated: get_wifi_stations tries the interfaces in their fixed order
\* and stops at the first whose output holds at least one station block; no
\* later interface is queried and the result is that interface's stations.
C22_StopsAtFirstBlock ==
    output.fn = "wifi_ifaces" => StopsAtFirstOf(IfacesWithBlock)

\* C22 amended: it stops at the first interface whose output gives at least
\* one station with a recognized attribute; an interface whose blocks are
\* all empty is passed over like one that failed.
C22_StopsAtFirstStation ==
    output.fn = "wifi_ifaces" => StopsAtFirstOf(IfacesWithStation)

\* The first interface fails, the second and the third both list a station
\* with a signal: only the second one's station is returned.
C22_SecondInterfaceWins ==
    /\ output.fn = "wifi_ifaces"
    /\ ~input.outs[1].ok
    /\ IfacesWithStation = {2, 3}
    /\ station_dump(input.outs[2].out) # station_dump(input.outs[3].out)
    /\ output.queried = {1, 2}
    /\ Len(output.ret) = 1

\* The instantaneous and the averaged signal lines of the block that starts
\* at header position i of the dump of the call.
SignalLines(i) ==
    {k \in (i + 1)..BlockEnd(input.out, i) :
        input.out[k].t = "attr" /\ input.out[k].name = "signal"}

SignalAvgLines(i) ==
    {k \in (i + 1)..BlockEnd(input.out, i) :
        input.out[k].t = "attr"
        /\ input.out[k].name \in {"signal avg", "beacon signal avg"}}

\* The station of header i is listed once in the dump.
ListedOnce(i) ==
    \A j \in HeaderPositions(input.out) :
        lower(input.out[j].mac) = lower(input.out[i].mac) => j = i

\* C23: in a station block with an instantaneous "signal:" line, signal_dbm
\* is the instantaneous value, whether an averaged "signal avg:" line comes
\* before or after it; the averaged value is used only when the block has no
\* instantaneous line, and without either there is no signal_dbm.
C23_InstantaneousSignalPreferred ==
    output.fn = "get_wifi_stations" =>
        \A i \in HeaderPositions(input.out) : ListedOnce(i) =>
            LET mac == lower(input.out[i].mac)
                inst == SignalLines(i)
                avg == SignalAvgLines(i)
            IN  IF inst # {}
                THEN /\ dict_has(output.ret, mac)
                     /\ dict_has(dict_get(output.ret, mac), "signal_dbm")
                     /\ \E k \in inst :
                          dict_get(dict_get(output.ret, mac), "signal_dbm")
                            = input.out[k].val
                ELSE IF avg # {}
                THEN /\ dict_has(output.ret, mac)
                     /\ dict_has(dict_get(output.ret, mac), "signal_dbm")
                     /\ \E k \in avg :
                          dict_get(dict_get(output.ret, mac), "signal_dbm")
                            = input.out[k].val
                ELSE dict_has(output.ret, mac) =>
                        ~dict_has(dict_get(output.ret, mac), "signal_dbm")

\* A block whose averaged line comes before its instantaneous line.
C23_AveragedLineFirst ==
    /\ output.fn = "get_wifi_stations"
    /\ HeaderPositions(input.out) = {1}
    /\ \E k \in SignalAvgLines(1) : \E l \in SignalLines(1) : k < l
    /\ dict_get(output.ret[1][2], "signal_dbm") = 45

\* The battery sources of the call whose capacity is an integer in 0..100,
\* by position in enumeration order.
BatteriesWithCapacity ==
    {k \in 1..Len(input.sources) :
        /\ IsBattery(input.sources[k])
        /\ input.sources[k].capacity # NoNum
        /\ 0 <= input.sources[k].capacity /\ input.sources[k].capacity <= 100}

\* C24: when several battery sources expose a capacity that is an integer
\* in 0..100, battery_pct is the first such value in enumeration order.
C24_FirstBatteryCapacity ==
    (output.fn = "read_power_info" /\ BatteriesWithCapacity # {}) =>
        output.ret.battery_pct = input.sources[First(BatteriesWithCapacity)].capacity

\* The battery and external sources of the call that expose a non-empty
\* status, by position in enumeration order.
SourcesWithStatus ==
    {k \in 1..Len(input.sources) :
        /\ IsBattery(input.sources[k]) \/ IsExternal(input.sources[k])
        /\ input.sources[k].status # ""}

\* C25: the status string is the one of the first battery or external
\* source, in enumeration order, that exposes a non-empty status, and there
\* is none when no such source does.
C25_FirstSourceStatus ==
    output.fn = "read_power_info" =>
        output.ret.status = IF SourcesWithStatus = {} THEN ""
                            ELSE input.sources[First(SourcesWithStatus)].status

\* C30: in every LocalNode build_local_obj returns, battery_present is true
\* exactly when power_source is "battery", and battery_pct is present only
\* when battery_present is true and is then an integer in 0..100.
C30_LocalNodeConsistent ==
    output.fn = "build_local_obj" =>
        /\ dict_get(output.ret, "battery_present")
             <=> dict_get(output.ret, "power_source") = "battery"
        /\ dict_has(output.ret, "battery_pct") =>
             /\ dict_get(output.ret, "battery_present")
             /\ dict_get(output.ret, "battery_pct") \in 0..100

\* A LocalNode built from a battery with an out-of-range capacity, a battery
\* with capacity 82 and nothing else: battery_pct is 82.
C30_BatteryWithCapacity ==
    /\ output.fn = "build_local_obj"
    /\ \E k \in 1..Len(input.sources) : input.sources[k].capacity = 150
    /\ dict_has(output.ret, "battery_pct")
    /\ dict_get(output.ret, "battery_pct") = 82
    /\ dict_get(output.ret, "power_source") = "battery"

\* C26: the writer attempts each dequeued snapshot at most once.  An attempt
\* starts only with a dequeue, every dequeued or enqueued snapshot is newer
\* than the one the writer took last (a snapshot whose write failed is not
\* put back and not taken again), and the destination changes only to the
\* snapshot the writer currently holds.
C26_NoRetry ==
    [][ \A i \in Inst :
          /\ (wpc'[i] = "mkstemp" /\ wpc[i] # "mkstemp")
               => /\ wpc[i] = "get"
                  /\ wpayload'[i] = Head(queue[i])
                  /\ wpayload'[i].seq > wpayload[i].seq
          /\ (wpayload'[i] # wpayload[i] /\ wpayload'[i] # NoSnap)
               => wpayload'[i].seq > wpayload[i].seq
          /\ (queue'[i] # queue[i] /\ queue'[i] # <<>>)
               => Head(queue'[i]).seq > wpayload[i].seq
          /\ (dest' # dest /\ dest'.snap.by = i)
               => wpc[i] = "replace" /\ dest'.snap = wpayload[i] ]_vars

\* The write of the first snapshot failed (the writer is back in its loop,
\* nothing was ever published) and the next snapshot is in the queue.
C26_NextSnapshotAfterFailure ==
    \E i \in Inst :
        /\ Running(i)
        /\ wpc[i] = "get" /\ wpayload[i] # NoSnap
        /\ dest.st = "missing"
        /\ queue[i] # <<>> /\ Head(queue[i]).seq > wpayload[i].seq

\* C27: the snapshots that reach the destination file do so in the order of
\* their submission.  Every submission is the newest snapshot built so far,
\* and every change of the destination replaces its content by a snapshot
\* submitted later than the one it held, whatever the interleaving of
\* write_status with the writer thread.
C27_WrittenInSubmissionOrder ==
    [][ /\ \A i \in Inst :
             (queue'[i] # queue[i] /\ queue'[i] # <<>>)
               => /\ queue'[i] = <<payload[i]>>
                  /\ payload[i].seq = ncycles
        /\ dest' # dest => dest'.snap.seq > dest.snap.seq ]_vars

\* A snapshot has been written to the file, the same process has submitted
\* the next one and its writer is about to replace the file by it.
C27_LaterOverEarlier ==
    \E i \in Inst :
        /\ wpc[i] = "replace" /\ werr[i] = "none"
        /\ dest.st = "complete" /\ dest.snap.by = i
        /\ dest.snap.seq < wpayload[i].seq

\* C28: a failed write never stops the writer.  In every state of a running
\* process, the states after a failed write included, the writer thread is
\* in its loop or in _write_status_sync; it can take the snapshot that
\* waits in the queue, each file operation of the write can succeed while
\* the filesystem is writable, a successful os.replace publishes the
\* snapshot the writer holds, and the end of _write_status_sync leads back
\* to the loop.
C28_WriterKeepsConsuming ==
    \A i \in Inst :
        Running(i) =>
          /\ wpc[i] \in {"get", "mkstemp", "dump", "fsync", "replace", "cleanup"}
          /\ (wpc[i] = "get" /\ queue[i] # <<>>)
               => ENABLED (writer_loop_get(i) /\ wpayload'[i] = Head(queue[i]))
          /\ (wpc[i] = "mkstemp" /\ fs = "rw")
               => ENABLED (write_status_sync_mkstemp(i, TRUE) /\ wpc'[i] = "dump")
          /\ (wpc[i] = "dump" /\ fs = "rw")
               => ENABLED (write_status_sync_dump(i, TRUE) /\ wpc'[i] = "fsync")
          /\ (wpc[i] = "fsync" /\ fs = "rw")
               => ENABLED (write_status_sync_fsync(i, TRUE) /\ wpc'[i] = "replace")
          /\ (wpc[i] = "replace" /\ fs = "rw")
               => ENABLED (write_status_sync_replace(i, TRUE) /\ Published(wpayload[i])')
          /\ wpc[i] = "cleanup"
               => ENABLED (write_status_sync_cleanup(i) /\ wpc'[i] = "get")

\* A write of a running process failed on a read-only filesystem (its
\* temporary file could not be removed and stays), and the snapshot the
\* process submitted afterwards has been dequeued and written.
C28_WrittenAfterFailure ==
    \E i \in Inst :
        /\ Running(i)
        /\ \E t \in tmpfiles : t.name[1] = i /\ t.st = "orphan"
        /\ wpayload[i] # NoSnap
        /\ Published(wpayload[i])

\* The temporary files a writer may still open: those not abandoned by a
\* killed process or by a failed unlink.
LiveTmpFiles(files) == {t \in files : t.st # "orphan"}

\* The writer thread of process i is between mkstemp and the end of
\* _write_status_sync.
InWrite(i) == Running(i) /\ wpc[i] \in {"dump", "fsync", "replace", "cleanup"}

\* C29 (as stated): at most one temporary status file exists at any instant
\* and none exists whenever the writer of a running process is idle between
\* writes.
C29_OneTempNoneWhenIdle ==
    /\ Cardinality(tmpfiles) <= 1
    /\ \A i \in Inst : (Running(i) /\ wpc[i] = "get") => tmpfiles = {}

\* C29 (amended): at most one temporary file is in use at any instant, it is
\* the one of a writer inside _write_status_sync, and none is in use while
\* the writer is idle.  A temporary file is abandoned, and stays in the
\* directory, only when its process stops during the write or when its
\* unlink fails on a read-only filesystem.
C29_OneLiveTempNoneWhenIdle ==
    [][ /\ Cardinality(LiveTmpFiles(tmpfiles')) <= 1
        /\ \A t \in LiveTmpFiles(tmpfiles') :
              \E i \in Inst : InWrite(i)' /\ wtmp'[i] = t.name
        /\ \A i \in Inst :
              (Running(i)' /\ wpc'[i] = "get")
                => /\ wtmp'[i] = NoTmp
                   /\ ~ \E t \in LiveTmpFiles(tmpfiles') : t.name[1] = i
        /\ \A t \in tmpfiles' \ LiveTmpFiles(tmpfiles') :
              t \notin tmpfiles
                => \/ fs = "ro" /\ wpc[t.name[1]] = "cleanup"
                   \/ Running(t.name[1]) /\ ~ Running(t.name[1])' ]_vars

\* An abandoned temporary file lies in the directory while the writer of a
\* running process has its own temporary file in use.
C29_TempBesideAbandoned ==
    \E i \in Inst :
        /\ InWrite(i) /\ wpc[i] = "fsync"
        /\ \E t \in LiveTmpFiles(tmpfiles) : t.name = wtmp[i]
        /\ \E t \in tmpfiles : t.st = "orphan"

====
